---------------------------- MODULE Spec2Model ----------------------------
(***************************************************************************)
(* A model of the supplier qualification pipeline:                         *)
(*   phase1_rows_scoring_selection.py  (Phase 1,  process_companies)       *)
(*   phase1_website_status_code.py     (Phase 1b, process_supplier_data_   *)
(*                                      pragmatic)                         *)
(*   phase2_manufacturing_relevance.py (Phase 2,  filter_manufacturing_    *)
(*                                      companies)                         *)
(*   phase3_manufacturing_reliability.py (Phase 3, filter_suppliers_       *)
(*                                      flexible)                          *)
(* Each phase is a one-shot batch run.  A run is modelled as a state       *)
(* machine whose steps are the iterations of the phase's loop followed by  *)
(* the block that writes the output.  Text values are TLA+ strings and the *)
(* Python string operations are computed character by character.           *)
(* Decimal scores are integers in hundredths (1.5 is 150).                 *)
(***************************************************************************)
EXTENDS Integers, Sequences, FiniteSets, TLC

VARIABLES
    phase,      \* which entry point runs: "P1", "P1b", "P2", "P3", or one
                \* function on its own: "gate", "fn"
    pc,         \* position of the run: "start", "loop" (head of the main
                \* loop), "body" (an iteration's body ran), "done",
                \* "raised", "aborted"
    df_columns, \* df.columns of the loaded table
    run_website_columns,  \* Phase 1: website_columns of process_companies
    df_len,     \* len(df) of the loaded table
    df,         \* the rows of the loaded table read so far (Phase 2/3: all)
    i,          \* the loop variable of the phase's main loop
    company_block,  \* Phase 1/1b: the 5 rows of the block being processed
    loc,        \* the locals of the current loop iteration
    checked,    \* Phase 1b: calls made to check_website_accessibility
                \* for the current block, in order
    accepted,   \* selected_companies / manufacturing_companies /
                \* suitable_suppliers
    rejected,   \* rejected_companies / non_manufacturing_companies /
                \* rejected_suppliers
    disqualified_companies,  \* Phase 1: the counter of disqualified groups
    files,      \* what the run wrote: file role -> <<>> or <<table>>
    result      \* the value the entry point returned

vars == <<phase, pc, df_columns, run_website_columns, df_len, df, i,
          company_block, loc, checked, accepted, rejected,
          disqualified_companies, files, result>>

------------------------------------------------------------------------------
(* Bounds of the model.                                                     *)

\* largest len(df) of a Phase 1 / Phase 1b table
MaxRows == 11
\* largest len(df) of a Phase 2 / Phase 3 table
MaxRecords == 3

------------------------------------------------------------------------------
(* Python values.  A cell of a table is NaN, a string or a number.          *)

NaN == [kind |-> "nan", v |-> "", n |-> 0]
Str(s) == [kind |-> "str", v |-> s, n |-> 0]
Num(k) == [kind |-> "num", v |-> "", n |-> k]
\* a decimal number, kept in hundredths
Dec(h) == [kind |-> "dec", v |-> "", n |-> h]

\* Optional values: None is the empty sequence, a value x is <<x>>.
None == <<>>
Some(x) == <<x>>

notna(value) == value.kind # "nan"
isna(value) == value.kind = "nan"
isinstance_str(value) == value.kind = "str"
\* str(value)
str(value) == CASE value.kind = "str" -> value.v
                [] value.kind = "num" -> ToString(value.n)
                [] OTHER -> "nan"

Char(s, k) == SubSeq(s, k, k)

\* the characters of a string
Chars(s) == {Char(s, k) : k \in 1..Len(s)}

Digits == "0123456789"

\* sub in s
Contains(s, sub) ==
    \E k \in 1..(Len(s) - Len(sub) + 1) : SubSeq(s, k, k + Len(sub) - 1) = sub

\* s.startswith(p)
StartsWith(s, p) == Len(p) <= Len(s) /\ SubSeq(s, 1, Len(p)) = p

IsSpace(c) == c \in {" ", "\t", "\n", "\r"}

RECURSIVE LStrip(_)
LStrip(s) == IF Len(s) > 0 /\ IsSpace(Char(s, 1))
             THEN LStrip(SubSeq(s, 2, Len(s))) ELSE s

RECURSIVE RStrip(_)
RStrip(s) == IF Len(s) > 0 /\ IsSpace(Char(s, Len(s)))
             THEN RStrip(SubSeq(s, 1, Len(s) - 1)) ELSE s

\* s.strip()
Strip(s) == RStrip(LStrip(s))

UpperLetters == "ABCDEFGHIJKLMNOPQRSTUVWXYZ"
LowerLetters == "abcdefghijklmnopqrstuvwxyz"

LowerChar(c) ==
    IF \E k \in 1..Len(UpperLetters) : Char(UpperLetters, k) = c
    THEN Char(LowerLetters,
              CHOOSE k \in 1..Len(UpperLetters) : Char(UpperLetters, k) = c)
    ELSE c

RECURSIVE Lower(_)
\* s.lower()
Lower(s) == IF Len(s) = 0 THEN ""
            ELSE LowerChar(Char(s, 1)) \o Lower(SubSeq(s, 2, Len(s)))

\* row[name] = val on a copy of the row
SetField(row, name, val) ==
    [c \in (DOMAIN row) \cup {name} |-> IF c = name THEN val ELSE row[c]]

\* the elements of a sequence
Range(seq) == {seq[k] : k \in 1..Len(seq)}

\* what a run has written under a file role: nothing yet
NoFile == <<>>
\* a variant of Written that writes the rows last to first
Written_reversed(rows) == <<[k \in 1..Len(rows) |-> rows[Len(rows) + 1 - k]]>>

\* DataFrame(rows).to_csv(path)
Written(rows) == <<rows>>

------------------------------------------------------------------------------
(* Phase 1: phase1_rows_scoring_selection.py                                *)

website_patterns == <<"website", "url", "domain", "web", "http", "www">>

detect_website_fields(columns) ==
    SelectSeq(columns,
              LAMBDA column : \E k \in 1..Len(website_patterns) :
                                 Contains(Lower(column), website_patterns[k]))

placeholder_values ==
    {"not available", "n/a", "none", "not applicable", "no website", "www."}

\* the test of one website column of has_website_data_simple
website_value_ok(row, column) ==
    /\ column \in DOMAIN row
    /\ notna(row[column])
    /\ isinstance_str(row[column])
    /\ Strip(str(row[column])) # ""
    /\ Lower(Strip(str(row[column]))) \notin placeholder_values

has_website_data_simple(row, website_columns) ==
    IF \E k \in 1..Len(website_columns) : website_value_ok(row, website_columns[k])
    THEN LET k == CHOOSE k \in 1..Len(website_columns) :
                     /\ website_value_ok(row, website_columns[k])
                     /\ \A j \in 1..(k - 1) :
                            ~website_value_ok(row, website_columns[j])
         IN  [has_website |-> TRUE,
              website_col |-> Some(website_columns[k]),
              website_val |-> Some(Strip(str(row[website_columns[k]])))]
    ELSE [has_website |-> FALSE, website_col |-> None, website_val |-> None]

\* pd.notna(value) and isinstance(value, str) and value.strip() != ""
filled(row, column) ==
    /\ column \in DOMAIN row
    /\ notna(row[column])
    /\ isinstance_str(row[column])
    /\ Strip(row[column].v) # ""

phone_columns == <<"primary_phone", "phone_numbers", "phone", "contact_phone">>

has_phone_data(row) ==
    \E k \in 1..Len(phone_columns) : filled(row, phone_columns[k])

address_columns ==
    <<"main_country", "main_city", "main_street", "country", "city", "street",
      "address">>

has_address_data(row) ==
    Cardinality({k \in 1..Len(address_columns) :
                    filled(row, address_columns[k])}) >= 2

selection_naics == <<"31", "32", "33", "42", "5413", "5416">>

selection_keywords ==
    <<"manufactur", "supplier", "raw material", "components", "parts",
      "machinery", "equipment", "tool", "fabrication", "industrial",
      "production", "assembly", "factory", "plant", "mill", "processing",
      "wholesale", "distribution">>

selection_naics_columns ==
    <<"naics_2022_primary_code", "naics_code", "primary_naics">>

selection_description_columns ==
    <<"short_description", "long_description", "business_tags",
      "naics_2022_primary_label", "company_description", "description">>

\* the text of the columns of cols that hold a string, lower-cased and
\* joined with a space after each
RECURSIVE combined_text(_, _)
combined_text(row, cols) ==
    IF cols = <<>> THEN ""
    ELSE (IF /\ Head(cols) \in DOMAIN row
             /\ notna(row[Head(cols)])
             /\ isinstance_str(row[Head(cols)])
          THEN Lower(row[Head(cols)].v) \o " " ELSE "")
         \o combined_text(row, Tail(cols))

check_manufacturing_relevance(row) ==
    LET present == {k \in 1..Len(selection_naics_columns) :
                       /\ selection_naics_columns[k] \in DOMAIN row
                       /\ notna(row[selection_naics_columns[k]])}
        naics_code ==
            IF present = {} THEN ""
            ELSE Strip(str(row[selection_naics_columns[
                     CHOOSE k \in present : \A j \in present : k <= j]]))
        naics_match == \E k \in 1..Len(selection_naics) :
                           StartsWith(naics_code, selection_naics[k])
        text == combined_text(row, selection_description_columns)
        keyword_matches ==
            Cardinality({k \in 1..Len(selection_keywords) :
                            Contains(text, selection_keywords[k])})
    IN  naics_match \/ keyword_matches >= 2

calculate_row_score(row) ==
    (IF has_phone_data(row) THEN 1 ELSE 0)
    + (IF has_address_data(row) THEN 2 ELSE 0)
    + (IF check_manufacturing_relevance(row) THEN 3 ELSE 0)


\* a variant of insert_by_score that puts an entry before those of equal
\* score (an unstable sort: the last of the equal entries comes first)
insert_by_score_before_equal(sorted, x) ==
    LET k == Cardinality({j \in 1..Len(sorted) :
                             sorted[j].row_score > x.row_score})
    IN  SubSeq(sorted, 1, k) \o <<x>> \o SubSeq(sorted, k + 1, Len(sorted))

\* valid_rows.sort(key=lambda x: x[0], reverse=True): a stable sort, so
\* entries of equal score keep their order
insert_by_score(sorted, x) ==
    LET k == Cardinality({j \in 1..Len(sorted) :
                             sorted[j].row_score >= x.row_score})
    IN  SubSeq(sorted, 1, k) \o <<x>> \o SubSeq(sorted, k + 1, Len(sorted))

RECURSIVE sort_by_score_desc(_)
sort_by_score_desc(valid_rows) ==
    IF valid_rows = <<>> THEN <<>>
    ELSE insert_by_score(
             sort_by_score_desc(SubSeq(valid_rows, 1, Len(valid_rows) - 1)),
             valid_rows[Len(valid_rows)])

\* the size of a company block
BlockSize == 5

Min(a, b) == IF a <= b THEN a ELSE b

\* the list valid_rows built by the loop of select_best_row_from_group;
\* idx is 0-based as in the source.  website[row] and score[row] hold
\* has_website_data_simple(row, website_columns) and
\* calculate_row_score(row).
RECURSIVE collect_valid_rows(_, _, _, _)
collect_valid_rows(company_rows, website, score, n) ==
    IF n = 0 THEN <<>>
    ELSE LET row == company_rows[n]
             w == website[row]
             before == collect_valid_rows(company_rows, website, score, n - 1)
         IN  IF w.has_website
             THEN Append(before,
                         [row_score |-> score[row],
                          idx |-> n - 1,
                          row |-> row,
                          website_col |-> w.website_col,
                          website_val |-> w.website_val])
             ELSE before

\* a variant of with_selection_metadata that records the website value as
\* the row holds it
with_selection_metadata_unstripped(best) ==
    LET r1 == SetField(best.row, "selection_score", Num(best.row_score))
        r2 == SetField(r1, "source_row_index", Num(best.idx + 1))
        r3 == SetField(r2, "detected_website_column", Str(best.website_col[1]))
    IN  SetField(r3, "detected_website_value",
                 Str(str(best.row[best.website_col[1]])))

\* the metadata select_best_row_from_group adds to the copy of the best row
with_selection_metadata(best) ==
    LET r1 == SetField(best.row, "selection_score", Num(best.row_score))
        r2 == SetField(r1, "source_row_index", Num(best.idx + 1))
        r3 == SetField(r2, "detected_website_column", Str(best.website_col[1]))
    IN  SetField(r3, "detected_website_value", Str(best.website_val[1]))

\* a variant of best_of_valid_rows that takes a best score of 0 for no result
best_of_valid_rows_unless_zero(valid_rows) ==
    IF valid_rows = <<>> \/ sort_by_score_desc(valid_rows)[1].row_score = 0
    THEN None
    ELSE Some(with_selection_metadata(sort_by_score_desc(valid_rows)[1]))

\* select_best_row_from_group, given the list valid_rows its loop built
best_of_valid_rows(valid_rows) ==
    IF valid_rows = <<>> THEN None
    ELSE Some(with_selection_metadata(sort_by_score_desc(valid_rows)[1]))

select_best_row_from_group(company_rows, website_columns) ==
    best_of_valid_rows(
        collect_valid_rows(
            company_rows,
            [row \in Range(company_rows) |->
                has_website_data_simple(row, website_columns)],
            [row \in Range(company_rows) |-> calculate_row_score(row)],
            Min(BlockSize, Len(company_rows))))

\* The columns of the Phase 1 input table (presales_data_sample.csv).
P1Columns ==
    <<"company_name", "website_url", "primary_phone", "main_country",
      "main_city", "naics_2022_primary_code", "short_description">>

P1Row(name, web, phone, country, city, naics, desc) ==
    [company_name |-> name, website_url |-> web, primary_phone |-> phone,
     main_country |-> country, main_city |-> city,
     naics_2022_primary_code |-> naics, short_description |-> desc]

\* The variants a Phase 1 block is drawn from: a placeholder website on a
\* row that would score 6, and rows with a website scoring 0, 3 (phone and
\* address), 3 (NAICS code) and 5 (address and two keywords).
P1Rows ==
    { P1Row(Str("Acme"), Str(" N/A "), Str("555-0100"), Str("US"),
            Str("Austin"), Num(332710), Str("Machine shop")),
      P1Row(Str("Acme"), Str(" acme.com "), Str("  "), Str("US"), NaN,
            Num(522110), Str("Retail bank")),
      P1Row(Str("Acme Inc"), Str("www.acme.io"), Str("555-0100"), Str("US"),
            Str("Austin"), NaN, NaN),
      P1Row(NaN, Str("http://acme.com"), NaN, NaN, NaN, Num(332710), NaN),
      P1Row(Str("Acme"), Str("acme.com"), NaN, Str("US"), Str("Austin"),
            Num(522110), Str("Steel PARTS supplier")) }

\* the same variants in a table that calls the website column "homepage",
\* a name detect_website_fields does not know: one with a placeholder and
\* one with a URL
P1UnnamedRows ==
    { [c \in (DOMAIN row \ {"website_url"}) \cup {"homepage"} |->
          IF c = "homepage" THEN row.website_url ELSE row[c]] :
      row \in {r \in P1Rows : r.website_url.v \in {" N/A ", "www.acme.io"}} }

\* the tables of a Phase 1 run: the columns of a table and the variants its
\* rows are drawn from.  The third has no website column at all.
P1Tables ==
    (P1Columns :> P1Rows)
    @@ (<<"company_name", "homepage", "primary_phone", "main_country",
          "main_city", "naics_2022_primary_code", "short_description">>
           :> P1UnnamedRows)
    @@ (<<"company_name", "primary_phone", "main_country">>
           :> { [c \in {"company_name", "primary_phone", "main_country"} |->
                    row[c]] : row \in P1Rows })

P1Blocks(rows) == [1..BlockSize -> rows]

\* website_columns of a run whose table has the columns P1Columns
P1WebsiteColumns == detect_website_fields(P1Columns)

\* has_website_data_simple, for the website columns a run can detect, and
\* calculate_row_score of every variant a block can hold, computed once
P1RowFacts ==
    [row \in P1Rows \cup P1UnnamedRows |->
        [website |->
             [website_columns \in {P1WebsiteColumns, <<"homepage">>} |->
                 has_website_data_simple(row, website_columns)],
         row_score |-> calculate_row_score(row),
         phone |-> has_phone_data(row),
         address |-> has_address_data(row),
         relevance |-> check_manufacturing_relevance(row)]]

\* select_best_row_from_group(block, website_columns) on a block of the
\* run, reading the per-row results from P1RowFacts
select_best_row_of_block(block, website_columns) ==
    best_of_valid_rows(
        collect_valid_rows(
            block,
            [row \in Range(block) |-> P1RowFacts[row].website[website_columns]],
            [row \in Range(block) |-> P1RowFacts[row].row_score],
            Min(BlockSize, Len(block))))

\* re.search(url_pattern, val, re.IGNORECASE) of process_companies
url_pattern_search(val) ==
    LET text == Lower(val)
        tlds == <<"com", "org", "net", "io", "co", "edu", "gov", "biz",
                  "info", "me", "dev", "ai", "app">>
        name_chars == Chars(LowerLetters) \cup Chars(Digits) \cup {"-"}
    IN  \/ Contains(text, "http://") \/ Contains(text, "https://")
        \/ Contains(text, "www.")
        \/ \E k \in 2..Len(text) :
              /\ Char(text, k) = "."
              /\ Char(text, k - 1) \in name_chars
              /\ \E t \in 1..Len(tlds) :
                    StartsWith(SubSeq(text, k + 1, Len(text)), tlds[t])

\* how many rows from the top of the table the fallback scan of
\* process_companies reaches
SampleRows == 2

\* a variant of fallback_website_columns that takes every column when the
\* scan finds no URL
fallback_website_columns_or_all(columns, head) ==
    IF \A k \in 1..Len(head) : \A column \in DOMAIN head[k] :
           ~(isinstance_str(head[k][column])
             /\ url_pattern_search(head[k][column].v))
    THEN columns
    ELSE SelectSeq(columns,
                   LAMBDA column : \E k \in 1..Len(head) :
                       /\ isinstance_str(head[k][column])
                       /\ url_pattern_search(head[k][column].v))

\* the fallback of process_companies: the text columns with a URL among the
\* first non-absent values; head holds the rows the scan reaches
fallback_website_columns(columns, head) ==
    LET sample_values(column) ==
            SelectSeq([k \in 1..Len(head) |-> head[k][column]], notna)
        url_count(column) ==
            Cardinality({k \in 1..Len(sample_values(column)) :
                            /\ isinstance_str(sample_values(column)[k])
                            /\ url_pattern_search(sample_values(column)[k].v)})
    IN  SelectSeq(columns, LAMBDA column : url_count(column) > 0)

\* a variant of non_empty under which every list counts as non-empty
non_empty_or_not(rows) == TRUE

\* `if rows:` for a list, the test each phase makes before it writes its
\* output table
non_empty(rows) == rows # <<>>

InitCommon ==
    /\ run_website_columns = <<>>
    /\ company_block = <<>>
    /\ loc = <<>>
    /\ checked = <<>>
    /\ accepted = <<>>
    /\ rejected = <<>>
    /\ disqualified_companies = 0
    /\ files = [output_file |-> NoFile, rejected_file |-> NoFile,
                non_manufacturing_file |-> NoFile]
    /\ result = <<>>

\* process_companies once the table is loaded
InitP1 ==
    /\ phase = "P1"
    /\ pc = "start"
    /\ df_columns \in DOMAIN P1Tables
    /\ df_len \in 0..MaxRows
    /\ df = <<>>
    /\ i = 0
    /\ InitCommon

\* process_companies up to the loop: the website columns are detected by
\* name or, failing that, by the fallback scan, which reads the top of the
\* table; without website columns the function returns None
P1DetectColumns ==
    /\ phase = "P1" /\ pc = "start"
    /\ IF detect_website_fields(df_columns) # <<>>
       THEN /\ run_website_columns' = detect_website_fields(df_columns)
            /\ UNCHANGED df
       ELSE \E head \in [1..Min(df_len, SampleRows) -> P1Tables[df_columns]] :
               /\ df' = head
               /\ run_website_columns' =
                      fallback_website_columns(df_columns, head)
    /\ IF run_website_columns' = <<>>
       THEN pc' = "aborted" /\ result' = None
       ELSE pc' = "loop" /\ UNCHANGED result
    /\ UNCHANGED <<phase, df_columns, df_len, i, company_block, loc, checked,
                   accepted, rejected, disqualified_companies, files>>

\* the body of the loop of process_companies on a complete block
P1ProcessBlock ==
    /\ phase = "P1" /\ pc = "loop"
    /\ i < df_len /\ i + BlockSize <= df_len
    /\ \E block \in P1Blocks(P1Tables[df_columns]) :
          LET best_row == select_best_row_of_block(block, run_website_columns)
          IN  /\ i = 0 => \A k \in 1..Len(df) : block[k] = df[k]
              /\ company_block' = block
              /\ loc' = [best_row |-> best_row]
              /\ IF best_row # None
                 THEN /\ accepted' = Append(accepted, best_row[1])
                      /\ UNCHANGED disqualified_companies
                 ELSE /\ disqualified_companies' = disqualified_companies + 1
                      /\ UNCHANGED accepted
    /\ pc' = "body"
    /\ UNCHANGED <<phase, df_columns, run_website_columns, df_len, df, i,
                   checked, rejected, files, result>>

\* the loop moves to the next block; the locals of the iteration are dead
P1NextBlock ==
    /\ phase = "P1" /\ pc = "body"
    /\ i' = i + BlockSize
    /\ company_block' = <<>>
    /\ loc' = <<>>
    /\ pc' = "loop"
    /\ UNCHANGED <<phase, df_columns, run_website_columns, df_len, df,
                   checked, accepted, rejected, disqualified_companies, files,
                   result>>

\* the incomplete block counted as a disqualified company
P1SkipIncomplete_counted ==
    /\ phase = "P1" /\ pc = "loop"
    /\ i < df_len /\ i + BlockSize > df_len
    /\ i' = i + BlockSize
    /\ disqualified_companies' = disqualified_companies + 1
    /\ UNCHANGED <<phase, pc, df_columns, run_website_columns, df_len, df,
                   company_block, loc, checked, accepted, rejected, files,
                   result>>

\* the iteration on the incomplete block at the end of the table
P1SkipIncomplete ==
    /\ phase = "P1" /\ pc = "loop"
    /\ i < df_len /\ i + BlockSize > df_len
    /\ i' = i + BlockSize
    /\ UNCHANGED <<phase, pc, df_columns, run_website_columns, df_len, df,
                   company_block, loc, checked, accepted, rejected,
                   disqualified_companies, files, result>>

\* what process_companies does after the loop
P1Emit ==
    /\ phase = "P1" /\ pc = "loop"
    /\ i >= df_len
    /\ IF non_empty(accepted)
       THEN /\ files' = [files EXCEPT !.output_file = Written(accepted)]
            /\ result' = Some(accepted)
       ELSE /\ result' = None
            /\ UNCHANGED files
    /\ pc' = "done"
    /\ UNCHANGED <<phase, df_columns, run_website_columns, df_len, df, i,
                   company_block, loc, checked, accepted, rejected,
                   disqualified_companies>>

NextP1 ==
    \/ P1DetectColumns
    \/ P1ProcessBlock \/ P1NextBlock \/ P1SkipIncomplete \/ P1Emit

SpecP1 == InitP1 /\ [][NextP1]_vars

------------------------------------------------------------------------------
(* Properties of Phase 1.                                                   *)

\* the positions (1-based) of the variants of a block that pass
\* has_website_data_simple
PassingVariants(block) ==
    {k \in 1..Len(block) :
        P1RowFacts[block[k]].website[run_website_columns].has_website}

\* phone +1, address +2, manufacturing relevance +3
CombinedScore(row) ==
    (IF P1RowFacts[row].phone THEN 1 ELSE 0)
    + (IF P1RowFacts[row].address THEN 2 ELSE 0)
    + (IF P1RowFacts[row].relevance THEN 3 ELSE 0)

\* C1: every complete block appends exactly one record to the selected list
\* if some variant of it passes has_website_data_simple, and otherwise
\* appends nothing and adds one to the disqualified counter; when the run is
\* done, selected + disqualified = total_rows // 5.
C1_TotalCoverage ==
    /\ [][(pc = "loop" /\ pc' = "body") =>
            IF PassingVariants(company_block') # {}
            THEN /\ Len(accepted') = Len(accepted) + 1
                 /\ SubSeq(accepted', 1, Len(accepted)) = accepted
                 /\ disqualified_companies' = disqualified_companies
            ELSE /\ accepted' = accepted
                 /\ disqualified_companies' = disqualified_companies + 1]_vars
    /\ [](pc = "done" =>
            Len(accepted) + disqualified_companies = df_len \div BlockSize)

\* a finished run of two complete blocks and a partial one, one block
\* selected and one disqualified
C1_Witness ==
    /\ phase = "P1" /\ pc = "done"
    /\ df_len = 2 * BlockSize + 1
    /\ Len(accepted) = 1
    /\ disqualified_companies = 1

\* C2: the selected variant passes the website check and has the largest
\* combined score (phone +1, address +2, manufacturing relevance +3) of the
\* passing variants of its block, and no passing variant of the same score
\* stands before it in the block.
C2_SelectionOrdering ==
    (phase = "P1" /\ pc = "body" /\ PassingVariants(company_block) # {}) =>
        /\ loc.best_row # None
        /\ accepted[Len(accepted)] = loc.best_row[1]
        /\ LET best == loc.best_row[1]
               k == best.source_row_index.n
           IN  /\ k \in PassingVariants(company_block)
               /\ best.selection_score.n = CombinedScore(company_block[k])
               /\ \A c \in DOMAIN company_block[k] :
                      best[c] = company_block[k][c]
               /\ \A j \in PassingVariants(company_block) :
                      /\ CombinedScore(company_block[j])
                             <= CombinedScore(company_block[k])
                      /\ CombinedScore(company_block[j])
                             = CombinedScore(company_block[k]) => k <= j

\* rows 2 and 4 are the only ones with website data and both score 3:
\* row 2 is selected
C2_Witness ==
    /\ phase = "P1" /\ pc = "body"
    /\ PassingVariants(company_block) = {2, 4}
    /\ CombinedScore(company_block[2]) = 3
    /\ CombinedScore(company_block[4]) = 3
    /\ company_block[2] # company_block[4]
    /\ loc.best_row # None
    /\ loc.best_row[1].source_row_index.n = 2

\* rows 2 and 4 are the only ones with website data, scoring 3 and 5:
\* row 4 is selected
C2_HigherScoreLater ==
    /\ phase = "P1" /\ pc = "body"
    /\ PassingVariants(company_block) = {2, 4}
    /\ CombinedScore(company_block[2]) = 3
    /\ CombinedScore(company_block[4]) = 5
    /\ loc.best_row # None
    /\ loc.best_row[1].source_row_index.n = 4

\* detect_website_fields of the tables of a run, computed once
NamedWebsiteColumns ==
    [table_columns \in DOMAIN P1Tables |->
        detect_website_fields(table_columns)]

\* C14: when no column name matches the website patterns and the fallback
\* scan finds no URL-shaped value in the rows it reads, process_companies
\* returns None before its loop: no block is processed, no row selected, no
\* block disqualified, no file written, and the run takes no further step.
C14_AbortWithoutWebsiteColumns ==
    /\ []((/\ phase = "P1" /\ pc # "start"
           /\ NamedWebsiteColumns[df_columns] = <<>>
           /\ \A k \in 1..Len(df) : \A column \in DOMAIN df[k] :
                  ~(isinstance_str(df[k][column])
                    /\ url_pattern_search(df[k][column].v)))
            => /\ pc = "aborted"
               /\ result = None
               /\ i = 0 /\ company_block = <<>>
               /\ accepted = <<>> /\ disqualified_companies = 0
               /\ \A f \in DOMAIN files : files[f] = NoFile)
    /\ [][pc # "aborted"]_vars

\* a table of two complete blocks without a website column name, whose rows
\* read by the scan hold a placeholder: the run has aborted
C14_Witness ==
    /\ phase = "P1" /\ pc = "aborted"
    /\ df_len = 2 * BlockSize
    /\ "homepage" \in Range(df_columns)
    /\ Len(df) = SampleRows
    /\ accepted = <<>> /\ files.output_file = NoFile

\* C15: when the row count is not a multiple of 5 the remainder rows are
\* left out: every processed block has exactly 5 rows lying inside the table,
\* the iteration that meets the remainder selects nothing, disqualifies
\* nothing and extracts no block, and the finished run has selected or
\* disqualified exactly total_rows // 5 blocks.
C15_TrailingRowsExcluded ==
    /\ [][(phase = "P1" /\ pc = "loop" /\ pc' = "body") =>
            /\ i + BlockSize <= df_len
            /\ Len(company_block') = BlockSize
            /\ loc'.best_row # None =>
                   loc'.best_row[1].source_row_index.n \in 1..BlockSize]_vars
    /\ [][(phase = "P1" /\ pc = "loop" /\ i < df_len
            /\ i + BlockSize > df_len) =>
            /\ i' = i + BlockSize /\ pc' = "loop"
            /\ accepted' = accepted
            /\ disqualified_companies' = disqualified_companies
            /\ company_block' = company_block
            /\ files' = files]_vars
    /\ []((phase = "P1" /\ pc \in {"loop", "done"} /\ i >= df_len) =>
            /\ Len(accepted) + disqualified_companies = df_len \div BlockSize
            /\ company_block = <<>>)

\* a table of one complete block and two more rows: the block was selected,
\* the loop has passed the remainder and nothing was disqualified
C15_Witness ==
    /\ phase = "P1" /\ pc = "loop"
    /\ df_len = BlockSize + 2 /\ i = 2 * BlockSize
    /\ Len(accepted) = 1
    /\ disqualified_companies = 0

\* C24: the record select_best_row_from_group returns has the fields of one
\* row of the block, unchanged, and four more: selection_score, the row's
\* calculate_row_score; source_row_index, its 1-based position in the block;
\* detected_website_column and detected_website_value, the column and the
\* stripped value has_website_data_simple returns for the row.  The rows of
\* the block are rows of the table, without these fields.
C24_CanonicalRecord ==
    (phase = "P1" /\ pc = "body") =>
        /\ \A k \in 1..Len(company_block) :
               /\ company_block[k] \in P1Tables[df_columns]
               /\ DOMAIN company_block[k] = Range(df_columns)
        /\ loc.best_row # None =>
               LET best == loc.best_row[1]
                   row == company_block[best.source_row_index.n]
                   column == best.detected_website_column.v
                   found == P1RowFacts[row].website[run_website_columns]
               IN  /\ best.source_row_index.n \in 1..Len(company_block)
                   /\ DOMAIN best = DOMAIN row \cup
                          {"selection_score", "source_row_index",
                           "detected_website_column",
                           "detected_website_value"}
                   /\ \A c \in DOMAIN row : best[c] = row[c]
                   /\ best.selection_score = Num(CombinedScore(row))
                   /\ found.has_website
                   /\ found.website_col = Some(column)
                   /\ column \in Range(run_website_columns)
                   /\ best.detected_website_value = Str(Strip(row[column].v))

\* the only row of the block with website data is its third, whose value
\* " acme.com " is recorded stripped
C24_Witness ==
    /\ phase = "P1" /\ pc = "body"
    /\ PassingVariants(company_block) = {3}
    /\ company_block[3]["website_url"] = Str(" acme.com ")
    /\ loc.best_row # None
    /\ loc.best_row[1].source_row_index = Num(3)
    /\ loc.best_row[1].detected_website_column = Str("website_url")
    /\ loc.best_row[1].detected_website_value = Str("acme.com")
    /\ loc.best_row[1].selection_score = Num(0)

------------------------------------------------------------------------------
(* Phase 1b: phase1_website_status_code.py                                  *)

\* the position of the first character of s that is in cs, or Len(s) + 1
FirstOf(s, cs) ==
    IF \E k \in 1..Len(s) : Char(s, k) \in cs
    THEN CHOOSE k \in 1..Len(s) :
             /\ Char(s, k) \in cs
             /\ \A j \in 1..(k - 1) : Char(s, j) \notin cs
    ELSE Len(s) + 1

RECURSIVE Replace(_, _, _)
\* s.replace(old, new)
Replace(s, old, new) ==
    IF Len(s) < Len(old) \/ Len(s) = 0 THEN s
    ELSE IF StartsWith(s, old)
         THEN new \o Replace(SubSeq(s, Len(old) + 1, Len(s)), old, new)
         ELSE Char(s, 1) \o Replace(SubSeq(s, 2, Len(s)), old, new)

\* urlparse(url).netloc; None when urlparse raises ValueError
urlparse_netloc(url) ==
    LET colon == FirstOf(url, {":"})
        has_scheme ==
            /\ colon > 1 /\ colon <= Len(url)
            /\ Char(url, 1) \in Chars(UpperLetters) \cup Chars(LowerLetters)
            /\ \A k \in 1..(colon - 1) :
                   Char(url, k) \in Chars(UpperLetters) \cup Chars(LowerLetters)
                                    \cup Chars(Digits) \cup {"+", "-", "."}
        rest == IF has_scheme THEN SubSeq(url, colon + 1, Len(url)) ELSE url
        after == SubSeq(rest, 3, Len(rest))
        netloc == IF StartsWith(rest, "//")
                  THEN SubSeq(after, 1, FirstOf(after, {"/", "?", "#"}) - 1)
                  ELSE ""
    IN  IF Contains(netloc, "[") # Contains(netloc, "]")
        THEN None ELSE Some(netloc)

invalid_patterns ==
    <<"example.com", "test.com", "demo.com", "placeholder", "notavailable">>

\* is_valid_url(url) for a string url
is_valid_url(url) ==
    IF \/ Strip(url) = ""
       \/ Lower(url) \in {"not available", "n/a", "none", "not applicable"}
    THEN FALSE
    ELSE LET u1 == Strip(url)
             u2 == Replace(Replace(u1, "https//", "https://"),
                           "http//", "http://")
             u3 == IF StartsWith(u2, "http://") \/ StartsWith(u2, "https://")
                   THEN u2
                   ELSE IF /\ Contains(u2, ".") /\ ~Contains(u2, " ")
                           /\ ~StartsWith(u2, "www.")
                        THEN "https://" \o u2
                        ELSE IF StartsWith(u2, "www.")
                             THEN "https://" \o u2 ELSE u2
             netloc == urlparse_netloc(u3)
         IN  /\ netloc # None
             /\ Len(netloc[1]) >= 3
             /\ \A k \in 1..Len(invalid_patterns) :
                    ~Contains(Lower(netloc[1]), invalid_patterns[k])

\* What the network does on one call of check_website_accessibility: the
\* outcome of requests.head, of requests.get and of requests.get with
\* verify=False.  An outcome is a response with a status code or a raised
\* exception; SSLError is a subclass of ConnectionError in requests.
Response(code) == [kind |-> "response", code |-> code]
Raises(exc) == [kind |-> exc, code |-> 0]

\* the classes an exception raised by requests is an instance of
\* (requests.exceptions: SSLError is a ConnectionError)
ExceptionClasses(exc) ==
    CASE exc = "Timeout" -> {"Timeout", "RequestException", "Exception"}
      [] exc = "ConnectionError" ->
             {"ConnectionError", "RequestException", "Exception"}
      [] exc = "SSLError" ->
             {"SSLError", "ConnectionError", "RequestException", "Exception"}
      [] exc = "RequestException" -> {"RequestException", "Exception"}
      [] OTHER -> {"Exception"}

\* the result of check_website_accessibility
CheckResult(is_accessible, status_code, error_msg) ==
    [is_accessible |-> is_accessible, status_code |-> status_code,
     error_msg |-> error_msg]

\* a variant of handle_exception without the last clause: an exception that
\* requests did not raise leaves the function
handle_exception_requests_only(exc, net) ==
    IF "Timeout" \in ExceptionClasses(exc)
    THEN CheckResult(FALSE, None, Some("Request timed out"))
    ELSE IF "ConnectionError" \in ExceptionClasses(exc)
    THEN CheckResult(FALSE, None, Some("Connection error"))
    ELSE IF "RequestException" \in ExceptionClasses(exc)
    THEN CheckResult(FALSE, None, Some("Request exception"))
    ELSE <<exc, "raised">>

\* the except clauses of check_website_accessibility, tried in order, for an
\* exception exc that left the try block
handle_exception(exc, net) ==
    IF "Timeout" \in ExceptionClasses(exc)
    THEN CheckResult(FALSE, None, Some("Request timed out"))
    ELSE IF "ConnectionError" \in ExceptionClasses(exc)
    THEN CheckResult(FALSE, None, Some("Connection error"))
    ELSE IF "SSLError" \in ExceptionClasses(exc)
    THEN IF net.get_unverified.kind = "response"
         THEN IF 200 <= net.get_unverified.code
                 /\ net.get_unverified.code < 400
              THEN CheckResult(TRUE, Some(net.get_unverified.code),
                               Some("SSL verification bypassed"))
              ELSE CheckResult(FALSE, Some(net.get_unverified.code),
                       Some("SSL error, status: "
                            \o ToString(net.get_unverified.code)))
         ELSE CheckResult(FALSE, None, Some("SSL error"))
    ELSE IF "RequestException" \in ExceptionClasses(exc)
    THEN CheckResult(FALSE, None, Some("Request exception"))
    ELSE CheckResult(FALSE, None, Some("Unexpected error"))

check_website_accessibility(url, net) ==
    IF net.head.kind = "response"
       /\ net.head.code \in {200, 301, 302, 307, 308}
    THEN CheckResult(TRUE, Some(net.head.code), None)
    ELSE IF net.head.kind # "response"
            /\ "RequestException" \notin ExceptionClasses(net.head.kind)
         THEN handle_exception(net.head.kind, net)
         ELSE IF net.get.kind = "response"
              THEN IF 200 <= net.get.code /\ net.get.code < 400
                   THEN CheckResult(TRUE, Some(net.get.code), None)
                   ELSE CheckResult(FALSE, Some(net.get.code),
                            Some("Status code: " \o ToString(net.get.code)))
              ELSE handle_exception(net.get.kind, net)

\* row.get('website_url', '')
get_website_url(row) ==
    IF "website_url" \in DOMAIN row THEN row["website_url"] ELSE Str("")

\* the test of line 114: the row's website is submitted to the checker
has_valid_url(row) ==
    notna(get_website_url(row)) /\ is_valid_url(str(get_website_url(row)))

\* the copy of the row with the selection metadata
selected_version(row, check) ==
    LET r1 == SetField(row, "selection_status", Str("SELECTED"))
        r2 == SetField(r1, "website_status",
                  Str("Accessible (Status: " \o ToString(check.status_code[1])
                      \o ")"))
    IN  SetField(r2, "website_url_normalized",
                 Str(Strip(str(get_website_url(row)))))

\* a variant of first_valid_version that returns the last valid version
last_valid_version(valid_versions) ==
    IF valid_versions # <<>> THEN Some(valid_versions[Len(valid_versions)])
    ELSE None

\* the return of select_best_company_version_pragmatic
first_valid_version(valid_versions) ==
    IF valid_versions # <<>> THEN Some(valid_versions[1]) ELSE None

\* the test of line 198 on one row of a rejected block
had_website(row) ==
    /\ notna(get_website_url(row))
    /\ Strip(str(get_website_url(row))) # ""
    /\ Lower(str(get_website_url(row))) \notin {"not available", "n/a", "none"}

column_order ==
    <<"company_name", "main_country", "main_city", "main_street",
      "website_url", "website_url_normalized", "primary_phone",
      "primary_email", "naics_2022_primary_code", "naics_2022_primary_label",
      "short_description", "business_tags", "revenue", "employee_count",
      "year_founded", "selection_status", "website_status", "last_updated_at">>

\* result_df[column_order], a column the rows lack being NaN
reorder_columns(rows) ==
    [k \in 1..Len(rows) |->
        [c \in Range(column_order) |->
            IF c \in DOMAIN rows[k] THEN rows[k][c] ELSE NaN]]

P1bRow(name, web) == [company_name |-> name, website_url |-> web]

\* The variants a Phase 1b block is drawn from: no website, a placeholder
\* both tests know, a placeholder only is_valid_url knows, a valid URL.
P1bRows ==
    { P1bRow(NaN, NaN),
      P1bRow(Str("Acme"), Str("n/a")),
      P1bRow(Str("Acme"), Str("Not Applicable")),
      P1bRow(Str("Acme"), Str(" acme.com ")) }

P1bBlocks == [1..BlockSize -> P1bRows]

\* what the network does on the calls of a Phase 1b run
P1bNets ==
    { [head |-> Response(200), get |-> Response(200),
       get_unverified |-> Response(200)],
      [head |-> Raises("Timeout"), get |-> Response(301),
       get_unverified |-> Response(301)],
      [head |-> Response(404), get |-> Response(404),
       get_unverified |-> Response(404)],
      [head |-> Raises("SSLError"), get |-> Raises("SSLError"),
       get_unverified |-> Response(200)],
      [head |-> Raises("ConnectionError"), get |-> Raises("Timeout"),
       get_unverified |-> Raises("Timeout")] }

\* has_valid_url and had_website of every variant, computed once
P1bRowFacts ==
    [row \in P1bRows |->
        [has_valid_url |-> has_valid_url(row), had_website |-> had_website(row)]]

\* a variant of submits_row that stops submitting once a version is valid
submits_row_until_found(row, valid_versions) ==
    P1bRowFacts[row].has_valid_url /\ valid_versions = <<>>

\* whether the loop of select_best_company_version_pragmatic, holding
\* valid_versions, calls the checker for the row: the test of line 114;
\* the loop has no break
submits_row(row, valid_versions) ==
    P1bRowFacts[row].has_valid_url

\* process_supplier_data_pragmatic up to the loop
InitP1b ==
    /\ phase = "P1b"
    /\ pc = "loop"
    /\ df_columns = <<"company_name", "website_url">>
    /\ df_len \in 0..MaxRows
    /\ df = <<>>
    /\ i = 1
    /\ InitCommon

\* the loop body up to the call of select_best_company_version_pragmatic
P1bStartBlock ==
    /\ phase = "P1b" /\ pc = "loop"
    /\ i < df_len /\ ~(i + 4 >= df_len)
    /\ \E block \in P1bBlocks :
          /\ company_block' = block
          /\ loc' = [company_name |->
                         IF notna(block[1]["company_name"])
                         THEN block[1]["company_name"]
                         ELSE Str("Unnamed_" \o ToString(i)),
                     k |-> 0,
                     valid_versions |-> <<>>,
                     result |-> None]
    /\ checked' = <<>>
    /\ pc' = "rows"
    /\ UNCHANGED <<phase, df_columns, run_website_columns, df_len, df, i,
                   accepted, rejected, disqualified_companies, files, result>>

\* one iteration of the loop of select_best_company_version_pragmatic
P1bCheckRow ==
    /\ phase = "P1b" /\ pc = "rows"
    /\ loc.k < Len(company_block)
    /\ LET row == company_block[loc.k + 1]
           normalized_url == Strip(str(get_website_url(row)))
       IN  \/ /\ ~submits_row(row, loc.valid_versions)
              /\ loc' = [loc EXCEPT !.k = @ + 1]
              /\ UNCHANGED checked
           \/ /\ submits_row(row, loc.valid_versions)
              /\ \E net \in P1bNets :
                    LET check == check_website_accessibility(normalized_url, net)
                    IN  /\ checked' = Append(checked,
                                             [idx |-> loc.k + 1,
                                              url |-> normalized_url,
                                              check |-> check])
                        /\ loc' = [loc EXCEPT
                               !.k = @ + 1,
                               !.valid_versions =
                                   IF check.is_accessible
                                   THEN Append(@, selected_version(row, check))
                                   ELSE @]
    /\ UNCHANGED <<phase, pc, df_columns, run_website_columns, df_len, df, i,
                   company_block, accepted, rejected, disqualified_companies,
                   files, result>>

\* the return of select_best_company_version_pragmatic and the rest of the
\* loop body
P1bFinishBlock ==
    /\ phase = "P1b" /\ pc = "rows"
    /\ loc.k = Len(company_block)
    /\ LET version == first_valid_version(loc.valid_versions)
           had_websites ==
               \E k \in 1..Len(company_block) :
                   P1bRowFacts[company_block[k]].had_website
           rejection_reason ==
               IF had_websites THEN "Had websites but none were accessible"
               ELSE "No website information available"
       IN  /\ loc' = [loc EXCEPT !.result = version]
           /\ IF version # None
              THEN /\ accepted' = Append(accepted, version[1])
                   /\ UNCHANGED rejected
              ELSE /\ rejected' =
                          Append(rejected,
                                 [company_name |-> loc.company_name,
                                  rejection_reason |-> rejection_reason,
                                  row_range |-> ToString(i) \o "-"
                                                \o ToString(i + 4)])
                   /\ UNCHANGED accepted
    /\ pc' = "body"
    /\ UNCHANGED <<phase, df_columns, run_website_columns, df_len, df, i,
                   company_block, checked, disqualified_companies, files,
                   result>>

\* the loop moves to the next block; the locals of the iteration are dead
P1bNextBlock ==
    /\ phase = "P1b" /\ pc = "body"
    /\ i' = i + BlockSize
    /\ company_block' = <<>>
    /\ loc' = <<>>
    /\ checked' = <<>>
    /\ pc' = "loop"
    /\ UNCHANGED <<phase, df_columns, run_website_columns, df_len, df,
                   accepted, rejected, disqualified_companies, files, result>>

\* the iteration on the incomplete block at the end of the table
P1bSkipIncomplete ==
    /\ phase = "P1b" /\ pc = "loop"
    /\ i < df_len /\ i + 4 >= df_len
    /\ i' = i + BlockSize
    /\ UNCHANGED <<phase, pc, df_columns, run_website_columns, df_len, df,
                   company_block, loc, checked, accepted, rejected,
                   disqualified_companies, files, result>>

\* what process_supplier_data_pragmatic does after the loop, called with a
\* rejected_file as the entry point calls it
P1bEmit ==
    /\ phase = "P1b" /\ pc = "loop"
    /\ i >= df_len
    /\ IF non_empty(accepted)
       THEN /\ files' = [files EXCEPT
                         !.output_file = Written(reorder_columns(accepted)),
                         !.rejected_file =
                             IF rejected # <<>> THEN Written(rejected) ELSE @]
            /\ result' = Some(reorder_columns(accepted))
       ELSE /\ files' = [files EXCEPT !.rejected_file =
                             IF rejected # <<>> THEN Written(rejected) ELSE @]
            /\ result' = None
    /\ pc' = "done"
    /\ UNCHANGED <<phase, df_columns, run_website_columns, df_len, df, i,
                   company_block, loc, checked, accepted, rejected,
                   disqualified_companies>>

NextP1b ==
    \/ P1bStartBlock \/ P1bCheckRow \/ P1bFinishBlock \/ P1bNextBlock
    \/ P1bSkipIncomplete \/ P1bEmit

SpecP1b == InitP1b /\ [][NextP1b]_vars

------------------------------------------------------------------------------
(* Properties of Phase 1b.                                                  *)

\* the calls of the checker for the current block that reported reachable
ReachableCalls == {j \in 1..Len(checked) : checked[j].check.is_accessible}

\* the positions of the rows of the current block whose website_url is a
\* valid URL and which the checker reported reachable
QualifyingRows ==
    {k \in 1..Len(company_block) :
        /\ P1bRowFacts[company_block[k]].has_valid_url
        /\ \E j \in ReachableCalls : checked[j].idx = k}

\* the call of the checker made for row k of the current block
CallFor(k) == checked[CHOOSE j \in 1..Len(checked) : checked[j].idx = k]

StatusText(call) ==
    "Accessible (Status: " \o ToString(call.check.status_code[1]) \o ")"

\* C3: select_best_company_version_pragmatic returns the first row, in row
\* order, whose website_url is a valid URL and which the checker reported
\* reachable; it returns None exactly when the block has no such row.
C3_FirstReachableSelected ==
    (phase = "P1b" /\ pc = "body") =>
        /\ loc.result = None <=> QualifyingRows = {}
        /\ QualifyingRows # {} =>
              LET first == CHOOSE k \in QualifyingRows :
                               \A j \in QualifyingRows : k <= j
                  version == loc.result[1]
              IN  /\ \A c \in DOMAIN company_block[first] :
                         version[c] = company_block[first][c]
                  /\ version["website_status"].v = StatusText(CallFor(first))
                  /\ accepted[Len(accepted)] = version

\* row 1 has a valid URL and is unreachable, rows 3 and 5 are reachable with
\* different status codes, and the version of row 3 is returned
C3_Witness ==
    /\ phase = "P1b" /\ pc = "body"
    /\ P1bRowFacts[company_block[1]].has_valid_url
    /\ QualifyingRows = {3, 5}
    /\ CallFor(3).check.status_code # CallFor(5).check.status_code
    /\ loc.result # None
    /\ loc.result[1]["website_status"].v = StatusText(CallFor(3))

\* C4 as claimed: once the checker has reported a variant of the block
\* reachable, no later variant of the block is submitted to the checker.
C4_ShortCircuit ==
    phase = "P1b" =>
        \A j, k \in 1..Len(checked) :
            j < k => ~checked[j].check.is_accessible

\* C4 as amended: the variants with a valid URL are submitted to the checker
\* in row order and every one of them is submitted, also after an earlier
\* one was reported reachable; the version returned is that of the first
\* call that reported reachable.
C4_AllSubmittedInOrder ==
    (phase = "P1b" /\ pc \in {"rows", "body"}) =>
        /\ \A j, k \in 1..Len(checked) :
               j < k => checked[j].idx < checked[k].idx
        /\ {checked[j].idx : j \in 1..Len(checked)}
               = {k \in 1..loc.k : P1bRowFacts[company_block[k]].has_valid_url}
        /\ pc = "body" =>
              /\ loc.result = None <=> ReachableCalls = {}
              /\ ReachableCalls # {} =>
                    LET call == checked[CHOOSE j \in ReachableCalls :
                                           \A m \in ReachableCalls : j <= m]
                    IN  /\ loc.result[1]["website_url_normalized"].v = call.url
                        /\ loc.result[1]["website_status"].v = StatusText(call)

\* variant 3 was reported reachable, variant 5 was submitted after it and
\* reported reachable with another status, and variant 3 is returned
C4_Witness ==
    /\ phase = "P1b" /\ pc = "body"
    /\ \E j, k \in ReachableCalls :
          /\ checked[j].idx = 3 /\ checked[k].idx = 5
          /\ \A m \in ReachableCalls : j <= m
          /\ checked[j].check.status_code # checked[k].check.status_code
          /\ loc.result[1]["website_status"].v = StatusText(checked[j])

\* C16: the groups of process_supplier_data_pragmatic are the positional
\* chunks of the loaded table: the block extracted at position i of df starts
\* at a multiple of 5 (group k is rows [5k, 5k+5), so the first data row,
\* position 0, is in group 0), and a table of exactly 5k rows has k groups
\* accepted or rejected when the run is done.
C16_PositionalGroups ==
    /\ [][(phase = "P1b" /\ pc = "loop" /\ pc' = "rows") =>
            /\ i % BlockSize = 0
            /\ Len(company_block') = BlockSize]_vars
    /\ []((phase = "P1b" /\ pc = "done" /\ df_len % BlockSize = 0) =>
            Len(accepted) + Len(rejected) = df_len \div BlockSize)

\* the row carries no website value: absent, blank or one of the placeholders
\* is_valid_url lists
NoWebsiteValue(row) ==
    \/ ~notna(get_website_url(row))
    \/ Strip(str(get_website_url(row))) = ""
    \/ Lower(Strip(str(get_website_url(row))))
           \in {"not available", "n/a", "none", "not applicable"}

\* C21: a block for which select_best_company_version_pragmatic returns None
\* adds exactly one record to the rejected list, whose reason is "No website
\* information available" if and only if no row of the block carries a
\* website value, and "Had websites but none were accessible" otherwise.
C21_RejectionReason ==
    /\ [][(phase = "P1b" /\ pc = "rows" /\ pc' = "body"
            /\ loc'.result = None) =>
            /\ Len(rejected') = Len(rejected) + 1
            /\ SubSeq(rejected', 1, Len(rejected)) = rejected
            /\ accepted' = accepted]_vars
    /\ []((phase = "P1b" /\ pc = "body" /\ loc.result = None) =>
            rejected[Len(rejected)].rejection_reason =
                IF \A k \in 1..Len(company_block) :
                       NoWebsiteValue(company_block[k])
                THEN "No website information available"
                ELSE "Had websites but none were accessible")

------------------------------------------------------------------------------
(* Phase 2: phase2_manufacturing_relevance.py                               *)

\* any(pattern in text for pattern in patterns)
ContainsAny(text, patterns) ==
    \E k \in 1..Len(patterns) : Contains(text, patterns[k])

\* separator.join(items)
RECURSIVE Join(_, _)
Join(separator, items) ==
    IF items = <<>> THEN ""
    ELSE IF Len(items) = 1 THEN items[1]
    ELSE items[1] \o separator \o Join(separator, Tail(items))

\* items[:n]
Take(items, n) == SubSeq(items, 1, Min(n, Len(items)))

detect_manufacturing_columns(columns) ==
    [naics_columns |->
        SelectSeq(columns, LAMBDA c : ContainsAny(Lower(c),
            <<"naics", "sic", "industry_code", "sector_code">>)),
     description_columns |->
        SelectSeq(columns, LAMBDA c : ContainsAny(Lower(c),
            <<"desc", "about", "profile", "overview", "summary">>)),
     tag_columns |->
        SelectSeq(columns, LAMBDA c : ContainsAny(Lower(c),
            <<"tag", "keyword", "category", "sector", "industry">>))]

get_manufacturing_naics_codes ==
    <<"31", "32", "33",
      "311", "312", "313", "314", "315", "316",
      "321", "322", "323", "324", "325", "326", "327", "331", "332", "333",
      "334", "335", "336", "337", "339",
      "42",
      "421", "422", "423", "424", "425",
      "5413", "54133", "54134", "54138", "54169",
      "811", "8113",
      "238",
      "5414", "5415", "5419">>

get_manufacturing_keywords ==
    <<"manufactur", "fabrication", "production", "assembly", "processing",
      "factory", "plant", "mill", "workshop", "facility", "facility",
      "components", "parts", "raw material", "materials", "supplies",
      "goods", "products", "equipment", "machinery", "tools", "hardware",
      "instrument", "device", "apparatus", "machine", "system",
      "industrial", "mechanical", "electrical", "electronics", "electronic",
      "chemical", "pharmaceutical", "biotech", "aerospace", "automotive",
      "automobile", "vehicle", "metal", "steel", "aluminum", "plastic",
      "polymer", "composite", "textile", "garment", "apparel", "food",
      "beverage", "pharma",
      "supplier", "vendor", "distributor", "wholesale", "wholesaler",
      "provider", "source", "procurement", "sourcing", "b2b",
      "business-to-business", "supply chain", "logistics", "warehousing",
      "inventory",
      "casting", "molding", "forging", "stamping", "welding", "machining",
      "cnc", "cutting", "forming", "shaping", "finishing", "coating",
      "plating", "heat treatment", "testing", "quality control",
      "inspection", "calibration",
      "oem", "original equipment manufacturer", "contract manufacturing",
      "custom manufacturing", "precision manufacturing",
      "industrial supplies", "industrial equipment", "machine parts",
      "industrial automation">>

RECURSIVE check_naics_manufacturing_relevance(_, _, _)
check_naics_manufacturing_relevance(row, naics_columns, manufacturing_naics) ==
    IF naics_columns = <<>>
    THEN [naics_match |-> FALSE, matched_code |-> None, naics_value |-> None]
    ELSE LET column == Head(naics_columns)
             naics_value == Strip(str(row[column]))
             codes == {k \in 1..Len(manufacturing_naics) :
                          StartsWith(naics_value, manufacturing_naics[k])}
         IN  IF /\ column \in DOMAIN row
                /\ notna(row[column])
                /\ naics_value # ""
                /\ codes # {}
             THEN [naics_match |-> TRUE,
                   matched_code |-> Some(manufacturing_naics[
                       CHOOSE k \in codes : \A m \in codes : k <= m]),
                   naics_value |-> Some(naics_value)]
             ELSE check_naics_manufacturing_relevance(
                      row, Tail(naics_columns), manufacturing_naics)

\* the loop of check_keyword_manufacturing_relevance that collects the
\* keywords found in the text, each once, in the order of the list
collect_found_keywords(text, keywords) ==
    LET found == SelectSeq([k \in 1..Len(keywords) |-> k],
                    LAMBDA k : /\ Contains(text, keywords[k])
                               /\ \A m \in 1..(k - 1) :
                                      keywords[m] # keywords[k])
    IN  [k \in 1..Len(found) |-> keywords[found[k]]]

\* a variant of keyword_match that is satisfied by a single keyword
keyword_match_single(found_keywords) == Len(found_keywords) >= 1

\* the test of check_keyword_manufacturing_relevance on the keywords found
keyword_match(found_keywords) == Len(found_keywords) >= 2

check_keyword_manufacturing_relevance(row, description_columns, tag_columns, manufacturing_keywords) ==
    LET text == combined_text(row, description_columns)
                    \o combined_text(row, tag_columns)
        found_keywords ==
            collect_found_keywords(text, manufacturing_keywords)
    IN  [keyword_match |-> keyword_match(found_keywords),
         found_keywords |-> found_keywords]

company_name_fields ==
    <<"company_name", "business_name", "name", "input_company_name">>

\* the loop of calculate_manufacturing_score over company_name_fields
RECURSIVE lowered_company_name(_, _)
lowered_company_name(row, fields) ==
    IF fields = <<>> THEN ""
    ELSE IF /\ Head(fields) \in DOMAIN row
            /\ notna(row[Head(fields)])
            /\ isinstance_str(row[Head(fields)])
         THEN Lower(row[Head(fields)].v)
         ELSE lowered_company_name(row, Tail(fields))

\* a variant of calculate_manufacturing_score in which the rules are not
\* added up: the score is that of the strongest rule that fires
calculate_manufacturing_score_strongest(row, naics_columns, description_columns, tag_columns, manufacturing_naics, manufacturing_keywords) ==
    LET naics == check_naics_manufacturing_relevance(
                     row, naics_columns, manufacturing_naics)
        keywords == check_keyword_manufacturing_relevance(
                        row, description_columns, tag_columns,
                        manufacturing_keywords)
        company_name == lowered_company_name(row, company_name_fields)
        named == /\ company_name # ""
                 /\ ContainsAny(company_name, manufacturing_keywords)
    IN  [score |-> IF naics.naics_match THEN 3
                   ELSE IF keywords.keyword_match THEN 2
                   ELSE IF named THEN 1 ELSE 0,
         evidence |->
             IF naics.naics_match
             THEN <<"NAICS match: " \o naics.matched_code[1] \o " ("
                        \o naics.naics_value[1] \o ")">>
             ELSE IF keywords.keyword_match
             THEN <<"Keywords match: "
                        \o Join(", ", Take(keywords.found_keywords, 3))>>
             ELSE IF named THEN <<"Name contains: " \o company_name>>
             ELSE <<>>]

calculate_manufacturing_score(row, naics_columns, description_columns, tag_columns, manufacturing_naics, manufacturing_keywords) ==
    LET naics == check_naics_manufacturing_relevance(
                     row, naics_columns, manufacturing_naics)
        keywords == check_keyword_manufacturing_relevance(
                        row, description_columns, tag_columns,
                        manufacturing_keywords)
        company_name == lowered_company_name(row, company_name_fields)
        name_keywords ==
            IF company_name = "" THEN <<>>
            ELSE SelectSeq(manufacturing_keywords,
                           LAMBDA kw : Contains(company_name, kw))
    IN  [score |-> (IF naics.naics_match THEN 3 ELSE 0)
                   + (IF keywords.keyword_match THEN 2 ELSE 0)
                   + (IF name_keywords # <<>> THEN 1 ELSE 0),
         evidence |->
             (IF naics.naics_match
              THEN <<"NAICS match: " \o naics.matched_code[1] \o " ("
                         \o naics.naics_value[1] \o ")">>
              ELSE <<>>)
             \o (IF keywords.keyword_match
                 THEN <<"Keywords match: "
                            \o Join(", ", Take(keywords.found_keywords, 3))>>
                 ELSE <<>>)
             \o (IF name_keywords # <<>>
                 THEN <<"Name contains: "
                            \o Join(", ", Take(name_keywords, 2))>>
                 ELSE <<>>)]

\* a variant of is_strictly_manufacturing_relevant with a strict comparison
is_strictly_manufacturing_relevant_above(score) == score > 2

is_strictly_manufacturing_relevant(score) == score >= 2

\* the rows a Phase 2 input table is built from
P2Columns ==
    <<"company_name", "naics_2022_primary_code", "short_description",
      "business_tags">>

P2Row(company_name, naics, description, tags) ==
    [c \in Range(P2Columns) |->
        CASE c = "company_name" -> company_name
          [] c = "naics_2022_primary_code" -> naics
          [] c = "short_description" -> description
          [] OTHER -> tags]

P2Rows ==
    { P2Row(Str("Acme"), NaN, Str("We sell parts"), NaN),
      P2Row(Str("Acme Steel"), NaN, Str("We sell parts"), NaN),
      P2Row(Str("Acme"), NaN, Str("metal parts"), NaN),
      P2Row(Str("Acme"), Num(332), NaN, NaN),
      P2Row(Str("Acme"), Str("311812"), NaN, NaN),
      P2Row(NaN, Str("999"), NaN, Str("Tools")),
      P2Row(Str("Acme Steel"), Num(332), Str("metal parts"), NaN) }

P2DetectedColumns == detect_manufacturing_columns(P2Columns)

\* the name filter_manufacturing_companies reports a row under
RECURSIVE reported_company_name(_, _)
reported_company_name(row, fields) ==
    IF fields = <<>> THEN "Unknown"
    ELSE IF /\ Head(fields) \in DOMAIN row
            /\ notna(row[Head(fields)])
            /\ Strip(str(row[Head(fields)])) # ""
         THEN Strip(str(row[Head(fields)]))
         ELSE reported_company_name(row, Tail(fields))

\* per row of P2Rows, what the body of the loop of
\* filter_manufacturing_companies computes from the row
P2RowFacts ==
    [row \in P2Rows |->
        [company_name |->
             reported_company_name(row,
                 <<"company_name", "input_company_name", "business_name">>),
         naics |->
             check_naics_manufacturing_relevance(
                 row, P2DetectedColumns.naics_columns,
                 get_manufacturing_naics_codes),
         keywords |->
             check_keyword_manufacturing_relevance(
                 row, P2DetectedColumns.description_columns,
                 P2DetectedColumns.tag_columns, get_manufacturing_keywords),
         scored |->
             calculate_manufacturing_score(
                 row, P2DetectedColumns.naics_columns,
                 P2DetectedColumns.description_columns,
                 P2DetectedColumns.tag_columns,
                 get_manufacturing_naics_codes, get_manufacturing_keywords),
         naics_codes |->
             Join(", ", Take(
                 [k \in 1..Len(SelectSeq(P2DetectedColumns.naics_columns,
                                         LAMBDA col : notna(row[col]))) |->
                     str(row[SelectSeq(P2DetectedColumns.naics_columns,
                                       LAMBDA col : notna(row[col]))[k]])],
                 2))]]

\* the row appended to manufacturing_companies
manufacturing_company(row, score, evidence) ==
    SetField(SetField(row, "manufacturing_score", Num(score)),
             "manufacturing_evidence",
             Str(IF evidence # <<>> THEN Join("; ", evidence)
                 ELSE "Score threshold met"))

\* the record appended to non_manufacturing_companies
non_manufacturing_company(row, score, evidence) ==
    [company_name |-> Str(P2RowFacts[row].company_name),
     manufacturing_score |-> Num(score),
     reason |-> Str(IF score < 2
                    THEN "Insufficient manufacturing relevance evidence"
                    ELSE "Failed strict criteria"),
     naics_codes |-> Str(P2RowFacts[row].naics_codes),
     evidence |-> Str(IF evidence # <<>> THEN Join("; ", evidence)
                      ELSE "No relevant evidence found")]

\* all tables of at most MaxRecords rows
Tables(rows) == UNION {[1..n -> rows] : n \in 0..MaxRecords}

\* filter_manufacturing_companies up to the loop: the table is loaded
InitP2 ==
    /\ InitCommon
    /\ phase = "P2"
    /\ pc = "loop"
    /\ df_columns = P2Columns
    /\ df \in Tables(P2Rows)
    /\ df_len = Len(df)
    /\ i = 0

\* one iteration of the loop over df.iterrows()
P2ProcessRow ==
    /\ phase = "P2" /\ pc = "loop"
    /\ i < df_len
    /\ LET row == df[i + 1]
           score == P2RowFacts[row].scored.score
           evidence == P2RowFacts[row].scored.evidence
           is_manufacturing == is_strictly_manufacturing_relevant(score)
       IN  /\ loc' = [company_name |-> P2RowFacts[row].company_name,
                      score |-> score,
                      evidence |-> evidence,
                      is_manufacturing |-> is_manufacturing]
           /\ IF is_manufacturing
              THEN /\ accepted' = Append(accepted,
                          manufacturing_company(row, score, evidence))
                   /\ UNCHANGED rejected
              ELSE /\ rejected' = Append(rejected,
                          non_manufacturing_company(row, score, evidence))
                   /\ UNCHANGED accepted
    /\ i' = i + 1
    /\ UNCHANGED <<phase, pc, df_columns, run_website_columns, df_len, df,
                   company_block, checked, disqualified_companies, files,
                   result>>

\* the end of filter_manufacturing_companies: the accepted table and the
\* rejected records are written only when some row was accepted
P2Emit ==
    /\ phase = "P2" /\ pc = "loop"
    /\ i >= df_len
    /\ IF non_empty(accepted)
       THEN /\ files' = [files EXCEPT
                            !.output_file = Written(accepted),
                            !.non_manufacturing_file = Written(rejected)]
            /\ result' = Some(accepted)
       ELSE /\ result' = None
            /\ UNCHANGED files
    /\ pc' = "done"
    /\ UNCHANGED <<phase, df_columns, run_website_columns, df_len, df, i,
                   company_block, loc, checked, accepted, rejected,
                   disqualified_companies>>

NextP2 == P2ProcessRow \/ P2Emit

SpecP2 == InitP2 /\ [][NextP2]_vars

------------------------------------------------------------------------------
(* Properties of Phase 2.                                                   *)

\* the rows among the first n of the table whose score is one of scores
RowsScoring(n, scores) ==
    SelectSeq(SubSeq(df, 1, n),
              LAMBDA row : P2RowFacts[row].scored.score \in scores)

\* C6 as claimed: when Phase 2 has ended, every rejected record is in the
\* non-manufacturing file with its score and evidence, also when no record
\* was accepted.
C6_RejectedRetained ==
    (phase = "P2" /\ pc = "done") =>
        \A k \in 1..Len(rejected) :
            /\ files.non_manufacturing_file # NoFile
            /\ \E r \in Range(files.non_manufacturing_file[1]) :
                  /\ r.company_name = rejected[k].company_name
                  /\ r.manufacturing_score = rejected[k].manufacturing_score
                  /\ r.evidence = rejected[k].evidence

\* C8: the accepted set holds exactly the processed rows whose manufacturing
\* score is at least 2, and the rejected set exactly those whose score is
\* below 2, each with its score, in table order.
C8_GateAtTwo ==
    phase = "P2" =>
        LET high == RowsScoring(i, {score \in 0..6 : score >= 2})
            low == RowsScoring(i, {score \in 0..6 : score < 2})
        IN  /\ Len(accepted) = Len(high)
            /\ \A k \in 1..Len(high) :
                  /\ \A c \in DOMAIN high[k] : accepted[k][c] = high[k][c]
                  /\ accepted[k]["manufacturing_score"]
                         = Num(P2RowFacts[high[k]].scored.score)
            /\ Len(rejected) = Len(low)
            /\ \A k \in 1..Len(low) :
                  /\ rejected[k].company_name
                         = Str(P2RowFacts[low[k]].company_name)
                  /\ rejected[k].manufacturing_score
                         = Num(P2RowFacts[low[k]].scored.score)

\* a row scoring exactly 2 was accepted and a row scoring 1 was rejected
C8_Witness ==
    /\ phase = "P2" /\ pc = "done"
    /\ \E k \in 1..Len(accepted) : accepted[k]["manufacturing_score"] = Num(2)
    /\ \E k \in 1..Len(rejected) : rejected[k].manufacturing_score = Num(1)

\* the row the loop has just processed has no NAICS match and exactly one
\* keyword in its description and tag text
SingleKeywordRow ==
    /\ phase = "P2" /\ i > 0
    /\ ~P2RowFacts[df[i]].naics.naics_match
    /\ Len(P2RowFacts[df[i]].keywords.found_keywords) = 1

\* the company name of the row contains a keyword of the list
NameHasKeyword(row) ==
    /\ isinstance_str(row["company_name"])
    /\ ContainsAny(Lower(row["company_name"].v), get_manufacturing_keywords)

\* C9 as claimed: a row with no NAICS match and exactly one keyword hit
\* scores 0 and is rejected.
C9_SingleKeywordScoresZero ==
    SingleKeywordRow =>
        /\ loc.score = 0
        /\ ~loc.is_manufacturing
        /\ rejected # <<>>
        /\ rejected[Len(rejected)].manufacturing_score = Num(0)

\* C9 as amended: a row with no NAICS match and exactly one keyword hit
\* scores 1 when its company name contains a keyword and 0 otherwise, and is
\* rejected in both cases.
C9_SingleKeywordRejected ==
    SingleKeywordRow =>
        /\ loc.score = (IF NameHasKeyword(df[i]) THEN 1 ELSE 0)
        /\ ~loc.is_manufacturing
        /\ rejected # <<>>
        /\ rejected[Len(rejected)].manufacturing_score = Num(loc.score)
        /\ rejected[Len(rejected)].company_name = Str(loc.company_name)

\* a row with one keyword hit and a keyword in its name was scored 1 and
\* rejected after a row with one keyword hit and a plain name was scored 0
C9_Witness ==
    /\ SingleKeywordRow /\ i > 1
    /\ NameHasKeyword(df[i]) /\ loc.score = 1
    /\ Len(P2RowFacts[df[i - 1]].keywords.found_keywords) = 1
    /\ ~NameHasKeyword(df[i - 1])
    /\ Len(rejected) >= 2
    /\ rejected[Len(rejected)].manufacturing_score = Num(1)
    /\ rejected[Len(rejected) - 1].manufacturing_score = Num(0)

\* per row of P2Rows, the three rules of the score stated on the row itself:
\* the NAICS value starts with a manufacturing prefix, at least 2 distinct
\* keywords are found in the description and tag text, the company name
\* contains a keyword
P2Rules ==
    [row \in P2Rows |->
        [naics |->
             /\ notna(row["naics_2022_primary_code"])
             /\ \E code \in Range(get_manufacturing_naics_codes) :
                    StartsWith(Strip(str(row["naics_2022_primary_code"])),
                               code),
         keywords |->
             Cardinality(Range(P2RowFacts[row].keywords.found_keywords)) >= 2,
         name |-> NameHasKeyword(row)]]

\* C17: the score of the row just processed is 3 for the NAICS rule plus 2
\* for the keyword rule plus 1 for the name rule, its evidence list has one
\* entry per rule that contributed, and a row with NAICS code "311812" and
\* no matching keyword scores exactly 3 and is accepted.
C17_AdditiveScore ==
    (phase = "P2" /\ i > 0 /\ loc # <<>>) =>
        LET rules == P2Rules[df[i]]
        IN  /\ loc.score = (IF rules.naics THEN 3 ELSE 0)
                            + (IF rules.keywords THEN 2 ELSE 0)
                            + (IF rules.name THEN 1 ELSE 0)
            /\ Len(loc.evidence)
                   = Cardinality({rule \in {"naics", "keywords", "name"} :
                                     rules[rule]})
            /\ (/\ df[i]["naics_2022_primary_code"] = Str("311812")
                /\ P2RowFacts[df[i]].keywords.found_keywords = <<>>
                /\ ~rules.name)
                   => /\ loc.score = 3
                      /\ loc.is_manufacturing
                      /\ accepted # <<>>
                      /\ accepted[Len(accepted)]["manufacturing_score"]
                             = Num(3)

\* the row with NAICS code "311812" and no keyword has been scored 3 and
\* accepted, after a row to which all three rules apply, scored 6
C17_Witness ==
    /\ phase = "P2" /\ i = 2
    /\ df[2]["naics_2022_primary_code"] = Str("311812")
    /\ loc.score = 3 /\ Len(loc.evidence) = 1
    /\ P2Rules[df[1]] = [naics |-> TRUE, keywords |-> TRUE, name |-> TRUE]
    /\ Len(accepted) = 2
    /\ accepted[1]["manufacturing_score"] = Num(6)
    /\ accepted[2]["manufacturing_score"] = Num(3)

------------------------------------------------------------------------------
(* Phase 3: phase3_manufacturing_reliability.py                             *)

\* A float is kept exactly, as m * 10^e with m not a multiple of 10.
RECURSIVE Float(_, _)
Float(m, e) ==
    IF m = 0 THEN [m |-> 0, e |-> 0]
    ELSE IF m % 10 = 0 THEN Float(m \div 10, e + 1)
    ELSE [m |-> m, e |-> e]

RECURSIVE Pow10(_)
Pow10(k) == IF k = 0 THEN 1 ELSE 10 * Pow10(k - 1)

\* x >= threshold, for a float x and a positive integer threshold below 10^9
FloatGE(x, threshold) ==
    IF x.e >= 9 THEN x.m > 0
    ELSE IF x.e >= 0
         THEN x.m >= (threshold + Pow10(x.e) - 1) \div Pow10(x.e)
         ELSE IF -x.e >= 9 THEN FALSE
              ELSE (x.m \div Pow10(-x.e)) >= threshold

\* the characters of s that are in cs, in order
RECURSIVE Keep(_, _)
Keep(s, cs) ==
    IF Len(s) = 0 THEN ""
    ELSE (IF Char(s, 1) \in cs THEN Char(s, 1) ELSE "")
         \o Keep(SubSeq(s, 2, Len(s)), cs)

\* the number a string of digits denotes
RECURSIVE DigitsToInt(_)
DigitsToInt(s) ==
    IF Len(s) = 0 THEN 0
    ELSE 10 * DigitsToInt(SubSeq(s, 1, Len(s) - 1))
         + (CHOOSE d \in 0..9 : ToString(d) = Char(s, Len(s)))

\* float(s) for s made of digits, dots and minus signs; None when float
\* raises ValueError
python_float(s) ==
    LET negative == StartsWith(s, "-")
        body == IF negative THEN SubSeq(s, 2, Len(s)) ELSE s
        dots == {k \in 1..Len(body) : Char(body, k) = "."}
        dot == IF dots = {} THEN Len(body) + 1 ELSE CHOOSE k \in dots : TRUE
        fraction == SubSeq(body, dot + 1, Len(body))
        m == DigitsToInt(SubSeq(body, 1, dot - 1) \o fraction)
    IN  IF \/ \E k \in 1..Len(body) : Char(body, k) \notin Chars(Digits) \cup {"."}
           \/ Cardinality(dots) > 1
           \/ Len(body) - Cardinality(dots) = 0
        THEN None
        ELSE Some(Float(IF negative THEN -m ELSE m, -Len(fraction)))

\* int(s) for a stripped string s: an optional sign and digits; None when
\* int raises ValueError
python_int(s) ==
    LET signed == StartsWith(s, "-") \/ StartsWith(s, "+")
        body == IF signed THEN SubSeq(s, 2, Len(s)) ELSE s
    IN  IF Len(body) = 0 \/ \E k \in 1..Len(body) : Char(body, k) \notin Chars(Digits)
        THEN None
        ELSE Some(IF StartsWith(s, "-") THEN -DigitsToInt(body)
                  ELSE DigitsToInt(body))

\* a variant of numeric_match that matches digits only
numeric_match_digits(value) ==
    LET cs == Chars(Digits)
        first == FirstOf(value, cs)
        rest == SubSeq(value, first, Len(value))
        stop == FirstOf(rest, (Chars(rest) \ cs)) - 1
    IN  IF first > Len(value) THEN None ELSE Some(SubSeq(rest, 1, stop))

\* re.search(r'[\d,.]+', value): the first longest run of digits, commas
\* and dots, or None
numeric_match(value) ==
    LET cs == Chars(Digits) \cup {",", "."}
        first == FirstOf(value, cs)
        rest == SubSeq(value, first, Len(value))
        stop == IF \E k \in 1..Len(rest) : Char(rest, k) \notin cs
                THEN (CHOOSE k \in 1..Len(rest) :
                          /\ Char(rest, k) \notin cs
                          /\ \A j \in 1..(k - 1) : Char(rest, j) \in cs) - 1
                ELSE Len(rest)
    IN  IF first > Len(value) THEN None ELSE Some(SubSeq(rest, 1, stop))

\* a variant of scaled_float without the try/except around float: the
\* ValueError leaves the function
scaled_float_uncaught(num_str, exponent) ==
    IF python_float(num_str) = None THEN <<"ValueError", "raised">>
    ELSE Some(Float(python_float(num_str)[1].m,
                    python_float(num_str)[1].e + exponent))

\* float(num_str) * 10^exponent, None when float raises
scaled_float(num_str, exponent) ==
    LET parsed == python_float(num_str)
    IN  IF parsed = None THEN None
        ELSE Some(Float(parsed[1].m, parsed[1].e + exponent))

numeric_placeholders ==
    {"not available", "n/a", "none", "not applicable", "no data", "unknown",
     ""}

parse_numeric_value(value) ==
    IF isna(value) \/ ~isinstance_str(value) THEN None
    ELSE LET parsed(text, num_match, clean_value) ==
                 IF text \in numeric_placeholders THEN None
                 ELSE IF /\ \/ Contains(text, "million")
                            \/ Contains(text, "m")
                            \/ Contains(text, "mn")
                         /\ num_match # None
                      THEN scaled_float(Replace(num_match[1], ",", ""), 6)
                 ELSE IF /\ Contains(text, "billion") \/ Contains(text, "b")
                         /\ num_match # None
                      THEN scaled_float(Replace(num_match[1], ",", ""), 9)
                 ELSE IF clean_value # "" THEN python_float(clean_value)
                 ELSE None
             stripped(text) ==
                 parsed(text, numeric_match(text),
                        Keep(text, Chars(Digits) \cup {".", "-"}))
         IN  stripped(Lower(Strip(value.v)))

detect_capability_columns(columns) ==
    LET matching(terms) ==
            SelectSeq(columns, LAMBDA c : ContainsAny(Lower(c), terms))
    IN  [employee |-> matching(<<"employee", "staff", "workforce", "headcount">>),
         revenue |-> matching(<<"revenue", "turnover", "sales", "income",
                                "financial">>),
         year |-> matching(<<"year", "founded", "established", "created">>),
         location |-> matching(<<"location", "branch", "office", "facility",
                                 "site">>),
         country |-> matching(<<"country", "nation", "region",
                                "headquarters">>)]

\* The sub-scores come with a text; the texts of the size and financial
\* scores are kept without the formatted figure they start with.

\* the first loop of assess_company_size_flexible; None when it falls through
RECURSIVE size_by_count(_, _)
size_by_count(row, employee_columns) ==
    IF employee_columns = <<>> THEN None
    ELSE LET col == Head(employee_columns)
             sized(value) ==
                 IF col \in DOMAIN row /\ notna(row[col]) /\ value # None
                 THEN Some(
                     IF FloatGE(value[1], 500)
                     THEN [score |-> 5, info |-> "employees (Large)"]
                     ELSE IF FloatGE(value[1], 100)
                     THEN [score |-> 4, info |-> "employees (Medium-Large)"]
                     ELSE IF FloatGE(value[1], 50)
                     THEN [score |-> 3, info |-> "employees (Medium)"]
                     ELSE IF FloatGE(value[1], 10)
                     THEN [score |-> 2, info |-> "employees (Small)"]
                     ELSE [score |-> 1, info |-> "employees (Micro)"])
                 ELSE size_by_count(row, Tail(employee_columns))
         IN  sized(parse_numeric_value(Str(str(row[col]))))

\* the second loop of assess_company_size_flexible
RECURSIVE size_by_description(_, _)
size_by_description(row, employee_columns) ==
    IF employee_columns = <<>> THEN None
    ELSE LET col == Head(employee_columns)
             present == col \in DOMAIN row /\ notna(row[col])
             described(value_str) ==
                 IF present /\ ContainsAny(value_str,
                         <<"large", "enterprise", "500+", "1000+">>)
                 THEN Some([score |-> 4,
                            info |-> "Large company (based on description)"])
                 ELSE IF present /\ ContainsAny(value_str,
                         <<"medium", "100-500", "50-250">>)
                 THEN Some([score |-> 3,
                            info |-> "Medium company (based on description)"])
                 ELSE IF present /\ ContainsAny(value_str,
                         <<"small", "10-50", "1-50">>)
                 THEN Some([score |-> 2,
                            info |-> "Small company (based on description)"])
                 ELSE size_by_description(row, Tail(employee_columns))
         IN  described(Lower(str(row[col])))

\* a variant of assess_company_size_flexible whose default is the lowest
\* score
assess_company_size_flexible_micro(row, employee_columns) ==
    LET first_of(by_count, by_description) ==
            IF by_count # None THEN by_count[1]
            ELSE IF by_description # None THEN by_description[1]
            ELSE [score |-> 1, info |-> "Micro company (default assumption)"]
    IN  first_of(size_by_count(row, employee_columns),
                 size_by_description(row, employee_columns))

assess_company_size_flexible(row, employee_columns) ==
    LET first_of(by_count, by_description) ==
            IF by_count # None THEN by_count[1]
            ELSE IF by_description # None THEN by_description[1]
            ELSE [score |-> 2, info |-> "Small company (default assumption)"]
    IN  first_of(size_by_count(row, employee_columns),
                 size_by_description(row, employee_columns))

\* datetime.now().year
current_year == 2026

WordChars == Chars(UpperLetters) \cup Chars(LowerLetters)
                 \cup Chars(Digits) \cup {"_"}

\* re.search(r'\b(19\d{2}|20\d{2})\b', text): the year matched, or None
year_match(text) ==
    LET at(k) ==
            /\ SubSeq(text, k, k + 1) \in {"19", "20"}
            /\ Char(text, k + 2) \in Chars(Digits)
            /\ Char(text, k + 3) \in Chars(Digits)
            /\ k = 1 \/ Char(text, k - 1) \notin WordChars
            /\ k + 3 = Len(text) \/ Char(text, k + 4) \notin WordChars
        matches == {k \in 1..(Len(text) - 3) : at(k)}
    IN  IF matches = {} THEN None
        ELSE LET k == CHOOSE k \in matches : \A j \in matches : k <= j
             IN  Some(DigitsToInt(SubSeq(text, k, k + 3)))

\* the score and text for a founding year within 1900..current_year
stability_of_year(year_val) ==
    LET years_in_business == current_year - year_val
    IN  [score |-> IF years_in_business >= 20 THEN 5
                   ELSE IF years_in_business >= 10 THEN 4
                   ELSE IF years_in_business >= 5 THEN 3
                   ELSE IF years_in_business >= 2 THEN 2
                   ELSE 1,
         info |-> "Founded " \o ToString(year_val) \o " ("
                      \o ToString(years_in_business) \o " years)"]

RECURSIVE assess_company_stability_flexible(_, _)
assess_company_stability_flexible(row, year_columns) ==
    IF year_columns = <<>>
    THEN [score |-> 3, info |-> "Established company (default assumption)"]
    ELSE LET col == Head(year_columns)
             first_of(direct, searched) ==
                 IF direct # None THEN direct ELSE searched
             dated(found) ==
                 IF /\ col \in DOMAIN row /\ notna(row[col])
                    /\ found # None
                    /\ 1900 <= found[1] /\ found[1] <= current_year
                 THEN stability_of_year(found[1])
                 ELSE assess_company_stability_flexible(row,
                                                        Tail(year_columns))
         IN  dated(first_of(python_int(Strip(str(row[col]))),
                            year_match(str(row[col]))))

RECURSIVE assess_financial_strength_flexible(_, _)
assess_financial_strength_flexible(row, revenue_columns) ==
    IF revenue_columns = <<>>
    THEN [score |-> 2, info |-> "Small revenue (default assumption)"]
    ELSE LET col == Head(revenue_columns)
             valued(value) ==
                 IF col \in DOMAIN row /\ notna(row[col]) /\ value # None
                 THEN IF FloatGE(value[1], 50000000)
                      THEN [score |-> 5, info |-> "M revenue (Large)"]
                      ELSE IF FloatGE(value[1], 10000000)
                      THEN [score |-> 4, info |-> "M revenue (Medium-Large)"]
                      ELSE IF FloatGE(value[1], 1000000)
                      THEN [score |-> 3, info |-> "M revenue (Medium)"]
                      ELSE IF FloatGE(value[1], 100000)
                      THEN [score |-> 2, info |-> "K revenue (Small)"]
                      ELSE [score |-> 1, info |-> "revenue (Micro)"]
                 ELSE assess_financial_strength_flexible(
                          row, Tail(revenue_columns))
         IN  valued(parse_numeric_value(Str(str(row[col]))))

\* the first loop of assess_geographical_presence_flexible: the first
\* location value that int accepts, or None
RECURSIVE find_location_count(_, _)
find_location_count(row, location_columns) ==
    IF location_columns = <<>> THEN None
    ELSE LET col == Head(location_columns)
             counted(location_count) ==
                 IF /\ col \in DOMAIN row /\ notna(row[col])
                    /\ location_count # None
                 THEN location_count
                 ELSE find_location_count(row, Tail(location_columns))
         IN  counted(python_int(Strip(str(row[col]))))

\* [c.strip() for c in re.split(r'[;,|]', text) if c.strip()]
RECURSIVE split_countries(_)
split_countries(text) ==
    LET pieces(cut, piece) ==
            (IF piece # "" THEN <<piece>> ELSE <<>>)
            \o (IF cut > Len(text) THEN <<>>
                ELSE split_countries(SubSeq(text, cut + 1, Len(text))))
        split_at(cut) == pieces(cut, Strip(SubSeq(text, 1, cut - 1)))
    IN  split_at(FirstOf(text, {";", ",", "|"}))

\* the second loop of assess_geographical_presence_flexible
RECURSIVE find_countries(_, _)
find_countries(row, country_columns) ==
    IF country_columns = <<>> THEN <<>>
    ELSE LET col == Head(country_columns)
             listed(country_val) ==
                 IF /\ col \in DOMAIN row /\ notna(row[col])
                    /\ country_val # ""
                    /\ Lower(country_val) \notin
                           {"not available", "n/a", "none"}
                 THEN IF Chars(country_val) \cap {",", ";", "|"} # {}
                      THEN split_countries(country_val)
                      ELSE <<country_val>>
                 ELSE find_countries(row, Tail(country_columns))
         IN  listed(Strip(str(row[col])))

assess_geographical_presence_flexible(row, location_columns, country_columns) ==
    LET present(location_count, countries) ==
            LET locations_info ==
                    ToString(location_count[1]) \o " locations across "
                        \o ToString(Len(countries)) \o " countries"
            IN  IF location_count # None /\ location_count[1] >= 5
                THEN [score |-> 5, info |-> locations_info]
                ELSE IF location_count # None /\ location_count[1] >= 3
                THEN [score |-> 4, info |-> locations_info]
                ELSE IF location_count # None /\ location_count[1] >= 2
                THEN [score |-> 3, info |-> locations_info]
                ELSE IF countries # <<>>
                THEN IF Len(countries) >= 3
                     THEN [score |-> 4,
                           info |-> "Present in " \o ToString(Len(countries))
                               \o " countries: "
                               \o Join(", ", Take(countries, 3))]
                     ELSE IF Len(countries) >= 2
                     THEN [score |-> 3,
                           info |-> "Present in " \o ToString(Len(countries))
                               \o " countries: " \o Join(", ", countries)]
                     ELSE [score |-> 2,
                           info |-> "Present in " \o countries[1]]
                ELSE [score |-> 2,
                      info |-> "Single location (default assumption)"]
    IN  present(find_location_count(row, location_columns),
                find_countries(row, country_columns))

\* Decimal scores are kept in hundredths: 1.5 is 150.

\* round(x, 1) of a score in hundredths; up says where a tie goes
round_1(x, up) ==
    10 * ((x \div 10) + (IF x % 10 > 5 \/ (x % 10 = 5 /\ up) THEN 1 ELSE 0))

\* the sub-scores <<size, stability, financial, geo>> whose total score lies
\* halfway between two tenths and is rounded upwards by round(total_score, 1);
\* the other ties are rounded downwards
total_ties_rounded_up ==
    { <<1, 2, 4, 2>>, <<1, 2, 4, 4>>, <<2, 1, 4, 2>>, <<2, 1, 4, 4>>,
      <<2, 5, 1, 2>>, <<2, 5, 1, 4>>, <<5, 2, 1, 2>>, <<5, 2, 1, 4>> }

\* a variant of calculate_capability_score_flexible with the weights of the
\* size and the financial scores exchanged
calculate_capability_score_flexible_size_weighted(row, capability_columns) ==
    LET weighted(size, stability, financial, geo) ==
            LET capability_score ==
                    size.score * 40 + stability.score * 30
                        + financial.score * 30
                total_score ==
                    (capability_score * 7 + geo.score * 100 * 3) \div 10
            IN  [total_score |-> total_score,
                 score_breakdown |->
                     [company_size |-> size.score,
                      company_stability |-> stability.score,
                      financial_strength |-> financial.score,
                      geographical_presence |-> geo.score * 100,
                      capability_score |-> round_1(capability_score, FALSE),
                      total_score |-> round_1(total_score, FALSE)],
                 info_details |->
                     [size_info |-> size.info,
                      stability_info |-> stability.info,
                      financial_info |-> financial.info,
                      geo_info |-> geo.info]]
    IN  weighted(
            assess_company_size_flexible(row, capability_columns.employee),
            assess_company_stability_flexible(row, capability_columns.year),
            assess_financial_strength_flexible(row,
                                               capability_columns.revenue),
            assess_geographical_presence_flexible(
                row, capability_columns.location, capability_columns.country))

calculate_capability_score_flexible(row, capability_columns) ==
    LET weighted(size, stability, financial, geo) ==
            LET capability_score ==
                    size.score * 30 + stability.score * 30
                        + financial.score * 40
                total_score ==
                    (capability_score * 7 + geo.score * 100 * 3) \div 10
            IN  [total_score |-> total_score,
                 score_breakdown |->
                     [company_size |-> size.score,
                      company_stability |-> stability.score,
                      financial_strength |-> financial.score,
                      geographical_presence |-> geo.score * 100,
                      capability_score |-> round_1(capability_score, FALSE),
                      total_score |->
                          round_1(total_score,
                                  <<size.score, stability.score,
                                    financial.score, geo.score>>
                                      \in total_ties_rounded_up)],
                 info_details |->
                     [size_info |-> size.info,
                      stability_info |-> stability.info,
                      financial_info |-> financial.info,
                      geo_info |-> geo.info]]
    IN  weighted(
            assess_company_size_flexible(row, capability_columns.employee),
            assess_company_stability_flexible(row, capability_columns.year),
            assess_financial_strength_flexible(row,
                                               capability_columns.revenue),
            assess_geographical_presence_flexible(
                row, capability_columns.location, capability_columns.country))

\* the default of min_capability_score
min_capability_score == 150
\* the default of min_geo_score
min_geo_score == 100

\* a variant of is_suitable_supplier_flexible with strict comparisons
is_suitable_supplier_strictly_above(score_breakdown, min_capability, min_geo) ==
    /\ score_breakdown.capability_score > min_capability
    /\ score_breakdown.geographical_presence > min_geo

is_suitable_supplier_flexible(score_breakdown, min_capability, min_geo) ==
    /\ score_breakdown.capability_score >= min_capability
    /\ score_breakdown.geographical_presence >= min_geo

\* f"{x:.1f}" of a score in hundredths that is a whole number of tenths
format_1f(x) == ToString(x \div 100) \o "." \o ToString((x % 100) \div 10)

\* str(score_breakdown)
str_score_breakdown(b) ==
    "{'company_size': " \o ToString(b.company_size)
        \o ", 'company_stability': " \o ToString(b.company_stability)
        \o ", 'financial_strength': " \o ToString(b.financial_strength)
        \o ", 'geographical_presence': "
        \o ToString(b.geographical_presence \div 100)
        \o ", 'capability_score': " \o format_1f(b.capability_score)
        \o ", 'total_score': " \o format_1f(b.total_score) \o "}"

\* the rows a Phase 3 input table is built from
P3Columns ==
    <<"company_name", "employee_count", "revenue", "year_founded",
      "num_locations", "main_country">>

P3Row(company_name, employees, revenue, year, locations, country) ==
    [c \in Range(P3Columns) |->
        CASE c = "company_name" -> company_name
          [] c = "employee_count" -> employees
          [] c = "revenue" -> revenue
          [] c = "year_founded" -> year
          [] c = "num_locations" -> locations
          [] OTHER -> country]

P3Rows ==
    { P3Row(Str("Tiny"), Str("5"), Str("50000"), Num(current_year), NaN,
            Str("US")),
      P3Row(Str("Small"), Str("20"), Str("50,000"),
            Str(ToString(current_year - 1)), NaN, NaN),
      P3Row(Str("Young"), Str("20"), Str("50000"), Num(current_year - 2), NaN,
            Str("US; DE; FR")),
      P3Row(Str("Plain"), NaN, NaN, NaN, NaN, NaN),
      P3Row(Str("Acme"), Str("250 employees"), Str("$1.5M"),
            Str("Founded in 1999"), Str("3"), Str("US, DE")) }

P3CapabilityColumns == detect_capability_columns(P3Columns)

\* a Phase 3 input table none of whose columns is taken for a capability
\* column, and its rows
P3BareColumns == <<"company_name", "manufacturing_score">>

P3BareRows ==
    { [company_name |-> Str("Bare"), manufacturing_score |-> Num(3)],
      [company_name |-> NaN, manufacturing_score |-> Num(2)] }

\* per row of P3Rows, what the body of the loop of filter_suppliers_flexible
\* computes from the row
P3RowFacts ==
    [row \in P3Rows \cup P3BareRows |->
        [company_name |->
             reported_company_name(row,
                 <<"company_name", "input_company_name", "business_name">>),
         scored |->
             calculate_capability_score_flexible(
                 row,
                 IF row \in P3Rows THEN P3CapabilityColumns
                 ELSE detect_capability_columns(P3BareColumns))]]

\* the row appended to suitable_suppliers
suitable_supplier(row, scored) ==
    [c \in (DOMAIN row) \cup {"total_supplier_score", "capability_score",
                              "geographical_score", "company_size_info",
                              "stability_info", "financial_info",
                              "geographical_info", "score_breakdown"} |->
        CASE c = "total_supplier_score" -> Dec(scored.total_score)
          [] c = "capability_score" ->
                 Dec(scored.score_breakdown.capability_score)
          [] c = "geographical_score" ->
                 Dec(scored.score_breakdown.geographical_presence)
          [] c = "company_size_info" -> Str(scored.info_details.size_info)
          [] c = "stability_info" -> Str(scored.info_details.stability_info)
          [] c = "financial_info" -> Str(scored.info_details.financial_info)
          [] c = "geographical_info" -> Str(scored.info_details.geo_info)
          [] c = "score_breakdown" ->
                 Str(str_score_breakdown(scored.score_breakdown))
          [] OTHER -> row[c]]

\* a variant of rejection_reasons with a geography threshold of 3.0
rejection_reasons_geo_below_three(cap_score, geo_score) ==
    (IF cap_score < 150
     THEN <<"Low capability (" \o format_1f(cap_score) \o "/5.0)">>
     ELSE <<>>)
    \o (IF geo_score < 300
        THEN <<"Poor geography (" \o format_1f(geo_score) \o "/5.0)">>
        ELSE <<>>)

\* the list rejection_reasons of filter_suppliers_flexible
rejection_reasons(cap_score, geo_score) ==
    (IF cap_score < 150
     THEN <<"Low capability (" \o format_1f(cap_score) \o "/5.0)">>
     ELSE <<>>)
    \o (IF geo_score < 100
        THEN <<"Poor geography (" \o format_1f(geo_score) \o "/5.0)">>
        ELSE <<>>)

\* the record appended to rejected_suppliers
rejected_supplier(company_name, scored) ==
    LET cap_score == scored.score_breakdown.capability_score
        geo_score == scored.score_breakdown.geographical_presence
        reasons == rejection_reasons(cap_score, geo_score)
    IN  [company_name |-> Str(company_name),
         capability_score |-> Dec(cap_score),
         geographical_score |-> Dec(geo_score),
         rejection_reasons |->
             Str(IF reasons # <<>> THEN Join("; ", reasons)
                 ELSE "Failed flexible criteria"),
         company_size |-> Str(scored.info_details.size_info),
         stability |-> Str(scored.info_details.stability_info),
         financial_strength |-> Str(scored.info_details.financial_info),
         geographical_presence |-> Str(scored.info_details.geo_info)]

\* filter_suppliers_flexible once the table is loaded
InitP3 ==
    /\ InitCommon
    /\ phase = "P3"
    /\ pc = "start"
    /\ \/ df_columns = P3Columns /\ df \in Tables(P3Rows)
       \/ df_columns = P3BareColumns /\ df \in Tables(P3BareRows)
    /\ df_len = Len(df)
    /\ i = 0

\* a variant of P3ShowSample that gives up on a table without capability
\* columns
P3ShowSample_needs_columns ==
    /\ phase = "P3" /\ pc = "start"
    /\ pc' = IF df_len = 0 \/ df_columns = P3BareColumns THEN "raised"
             ELSE "loop"
    /\ UNCHANGED <<phase, df_columns, run_website_columns, df_len, df, i,
                   company_block, loc, checked, accepted, rejected,
                   disqualified_companies, files, result>>

\* the sample of the first row: df.iloc[0] raises IndexError on an empty
\* table
P3ShowSample ==
    /\ phase = "P3" /\ pc = "start"
    /\ pc' = IF df_len = 0 THEN "raised" ELSE "loop"
    /\ UNCHANGED <<phase, df_columns, run_website_columns, df_len, df, i,
                   company_block, loc, checked, accepted, rejected,
                   disqualified_companies, files, result>>

\* a variant of P3ProcessRow that keeps no record of an unsuitable supplier
P3ProcessRow_drops ==
    /\ phase = "P3" /\ pc = "loop"
    /\ i < df_len
    /\ LET row == df[i + 1]
           company_name == P3RowFacts[row].company_name
           scored == P3RowFacts[row].scored
           is_suitable ==
               is_suitable_supplier_flexible(
                   scored.score_breakdown, min_capability_score, min_geo_score)
       IN  /\ loc' = [company_name |-> company_name,
                      score_breakdown |-> scored.score_breakdown,
                      is_suitable |-> is_suitable]
           /\ IF is_suitable
              THEN accepted' = Append(accepted, suitable_supplier(row, scored))
              ELSE UNCHANGED accepted
    /\ i' = i + 1
    /\ UNCHANGED <<phase, pc, df_columns, run_website_columns, df_len, df,
                   company_block, checked, rejected, disqualified_companies,
                   files, result>>

\* one iteration of the loop over df.iterrows()
P3ProcessRow ==
    /\ phase = "P3" /\ pc = "loop"
    /\ i < df_len
    /\ LET row == df[i + 1]
           company_name == P3RowFacts[row].company_name
           scored == P3RowFacts[row].scored
           is_suitable ==
               is_suitable_supplier_flexible(
                   scored.score_breakdown, min_capability_score, min_geo_score)
       IN  /\ loc' = [company_name |-> company_name,
                      score_breakdown |-> scored.score_breakdown,
                      is_suitable |-> is_suitable]
           /\ IF is_suitable
              THEN /\ accepted' = Append(accepted, suitable_supplier(row, scored))
                   /\ UNCHANGED rejected
              ELSE /\ rejected' = Append(rejected,
                          rejected_supplier(company_name, scored))
                   /\ UNCHANGED accepted
    /\ i' = i + 1
    /\ UNCHANGED <<phase, pc, df_columns, run_website_columns, df_len, df,
                   company_block, checked, disqualified_companies, files,
                   result>>

\* the end of filter_suppliers_flexible: rejected_suppliers is written
\* nowhere, the parameter rejected_file is not used
P3Emit ==
    /\ phase = "P3" /\ pc = "loop"
    /\ i >= df_len
    /\ IF non_empty(accepted)
       THEN /\ files' = [files EXCEPT !.output_file = Written(accepted)]
            /\ result' = Some(accepted)
       ELSE /\ result' = None
            /\ UNCHANGED files
    /\ pc' = "done"
    /\ UNCHANGED <<phase, df_columns, run_website_columns, df_len, df, i,
                   company_block, loc, checked, accepted, rejected,
                   disqualified_companies>>

NextP3 == P3ShowSample \/ P3ProcessRow \/ P3Emit

SpecP3 == InitP3 /\ [][NextP3]_vars

------------------------------------------------------------------------------
(* is_suitable_supplier_flexible on its own, applied to score breakdowns    *)
(* around the thresholds.                                                   *)

\* how far from the thresholds the scores of a breakdown are drawn
GateSpread == 10

InitGate ==
    /\ phase = "gate"
    /\ pc = "loop"
    /\ df_columns = <<>> /\ run_website_columns = <<>>
    /\ df_len = 0 /\ df = <<>> /\ i = 0
    /\ company_block = <<>> /\ checked = <<>>
    /\ accepted = <<>> /\ rejected = <<>>
    /\ disqualified_companies = 0
    /\ files = [output_file |-> NoFile, rejected_file |-> NoFile,
                non_manufacturing_file |-> NoFile]
    /\ result = <<>>
    /\ \E capability_score \in (min_capability_score - GateSpread)
                                   ..(min_capability_score + GateSpread),
          geographical_presence \in (min_geo_score - GateSpread)
                                        ..(min_geo_score + GateSpread) :
          loc = [score_breakdown |->
                    [capability_score |-> capability_score,
                     geographical_presence |-> geographical_presence]]

\* is_suitable_supplier_flexible(score_breakdown) with its defaults
GateApply ==
    /\ phase = "gate" /\ pc = "loop"
    /\ result' = Some(is_suitable_supplier_flexible(
                     loc.score_breakdown, min_capability_score, min_geo_score))
    /\ pc' = "done"
    /\ UNCHANGED <<phase, df_columns, run_website_columns, df_len, df, i,
                   company_block, loc, checked, accepted, rejected,
                   disqualified_companies, files>>

NextGate == GateApply

SpecGate == InitGate /\ [][NextGate]_vars

------------------------------------------------------------------------------
(* The scoring and parsing functions on their own, each applied to one      *)
(* input.                                                                   *)

\* loc holds the function applied and its argument
InitFn ==
    /\ phase = "fn"
    /\ pc = "start"
    /\ df_columns = <<>> /\ run_website_columns = <<>>
    /\ df_len = 0 /\ df = <<>> /\ i = 0
    /\ company_block = <<>> /\ checked = <<>>
    /\ accepted = <<>> /\ rejected = <<>>
    /\ disqualified_companies = 0
    /\ files = [output_file |-> NoFile, rejected_file |-> NoFile,
                non_manufacturing_file |-> NoFile]
    /\ result = <<>>
    /\ \/ \E value \in {NaN, Num(250)} \cup
                {Str(text) : text \in
                    {"250 employees", "250 staff", "250", " 1,200 ", "12.5",
                     "-3", "$99", "7 units", "$1.5M", "2 billion",
                     "10 million", "3mn", "1,200.5 m", "5b",
                     "not available", " N/A ", "unknown", "", "none",
                     "no data", "people", "1.2.3", "-", "1.2.3M", "M"}} :
           loc = [fn |-> "parse_numeric_value", value |-> value]
       \/ \E employees \in {NaN} \cup
                {Num(n) : n \in {0, 9, 10, 49, 50, 99, 100, 499, 500, 501}}
                \cup {Str(text) : text \in
                    {"5", "9.5", "49.9", "1,200", " 75 ", "Large", "enterprise",
                     "100-500+", "250 employees", "Medium", "100-500", "50-250",
                     "small", "10-50", "1-50", "500+", "1000+", "unknown", "",
                     "n/a", "-", "a few"}} :
           loc = [fn |-> "assess_company_size_flexible",
                  row |-> P3Row(Str("Acme"), employees, NaN, NaN, NaN, NaN)]
       \/ \E locations \in {NaN, Num(1), Num(2), Num(3), Num(5), Str(" 4 "),
                             Str("many")},
             country \in {NaN} \cup {Str(text) : text \in
                             {"US", "US, DE", "US; DE | FR", "US, US",
                              "US, DE, US", "n/a", "US,,", ""}} :
           loc = [fn |-> "assess_geographical_presence_flexible",
                  row |-> P3Row(Str("Acme"), NaN, NaN, NaN, locations,
                                country)]
       \/ \E employees \in {Num(n) : n \in {5, 20, 60, 200, 600}},
             revenue \in {Str(text) : text \in
                             {"50000", "200000", "2000000", "20000000",
                              "60000000"}},
             year \in {Num(current_year - age) : age \in {0, 3, 6, 11, 26}},
             presence \in {<<NaN, Str("US")>>, <<NaN, Str("US, DE")>>,
                           <<Num(3), NaN>>, <<Num(5), Str("US")>>} :
           loc = [fn |-> "calculate_capability_score_flexible",
                  row |-> P3Row(Str("Acme"), employees, revenue, year,
                                presence[1], presence[2])]
       \/ \E net \in [{"head", "get", "get_unverified"} ->
                         {Response(200), Response(301), Response(404)}
                         \cup {Raises(exc) : exc \in
                                 {"Timeout", "ConnectionError", "SSLError",
                                  "RequestException", "ValueError"}}] :
           loc = [fn |-> "check_website_accessibility",
                  url |-> "acme.com", net |-> net]

\* parse_numeric_value(value)
ParseApply ==
    /\ phase = "fn" /\ pc = "start"
    /\ loc.fn = "parse_numeric_value"
    /\ result' = parse_numeric_value(loc.value)
    /\ pc' = "done"
    /\ UNCHANGED <<phase, df_columns, run_website_columns, df_len, df, i,
                   company_block, loc, checked, accepted, rejected,
                   disqualified_companies, files>>

\* assess_company_size_flexible(row, capability_columns['employee'])
SizeApply ==
    /\ phase = "fn" /\ pc = "start"
    /\ loc.fn = "assess_company_size_flexible"
    /\ result' = assess_company_size_flexible(loc.row,
                                              P3CapabilityColumns.employee)
    /\ pc' = "done"
    /\ UNCHANGED <<phase, df_columns, run_website_columns, df_len, df, i,
                   company_block, loc, checked, accepted, rejected,
                   disqualified_companies, files>>

\* assess_geographical_presence_flexible(row, capability_columns['location'],
\* capability_columns['country'])
GeoApply ==
    /\ phase = "fn" /\ pc = "start"
    /\ loc.fn = "assess_geographical_presence_flexible"
    /\ result' = assess_geographical_presence_flexible(
                      loc.row, P3CapabilityColumns.location,
                      P3CapabilityColumns.country)
    /\ pc' = "done"
    /\ UNCHANGED <<phase, df_columns, run_website_columns, df_len, df, i,
                   company_block, loc, checked, accepted, rejected,
                   disqualified_companies, files>>

\* calculate_capability_score_flexible(row, capability_columns)
ScoreApply ==
    /\ phase = "fn" /\ pc = "start"
    /\ loc.fn = "calculate_capability_score_flexible"
    /\ result' = calculate_capability_score_flexible(loc.row,
                                                     P3CapabilityColumns)
    /\ pc' = "done"
    /\ UNCHANGED <<phase, df_columns, run_website_columns, df_len, df, i,
                   company_block, loc, checked, accepted, rejected,
                   disqualified_companies, files>>

\* check_website_accessibility(url), the network answering as loc.net says
CheckApply ==
    /\ phase = "fn" /\ pc = "start"
    /\ loc.fn = "check_website_accessibility"
    /\ result' = check_website_accessibility(loc.url, loc.net)
    /\ pc' = "done"
    /\ UNCHANGED <<phase, df_columns, run_website_columns, df_len, df, i,
                   company_block, loc, checked, accepted, rejected,
                   disqualified_companies, files>>

NextFn == ParseApply \/ SizeApply \/ GeoApply \/ ScoreApply \/ CheckApply

SpecFn == InitFn /\ [][NextFn]_vars

\* the scorers on their own and within the run of Phase 3 that calls them
SpecScoring == (InitFn \/ InitP3) /\ [][NextFn \/ NextP3]_vars

\* the checker on its own and within the run of Phase 1b that calls it
SpecChecker == (InitFn \/ InitP1b) /\ [][NextFn \/ NextP1b]_vars

------------------------------------------------------------------------------
(* The four phases, any one of which a run executes.                        *)

Init == InitP1 \/ InitP1b \/ InitP2 \/ InitP3

Next == NextP1 \/ NextP1b \/ NextP2 \/ NextP3

Spec == Init /\ [][Next]_vars

------------------------------------------------------------------------------
(* Properties of Phase 3 and of the phases together.                        *)

\* C7 as claimed: when Phase 3 has ended, every rejected record is in the
\* file given as rejected_file, with its rejection reasons.
C7_RejectedRetained ==
    (phase = "P3" /\ pc = "done") =>
        \A k \in 1..Len(rejected) :
            /\ files.rejected_file # NoFile
            /\ \E r \in Range(files.rejected_file[1]) :
                  /\ r.company_name = rejected[k].company_name
                  /\ r.rejection_reasons = rejected[k].rejection_reasons

\* C10: is_suitable_supplier_flexible accepts a breakdown exactly when its
\* capability score is at least 1.5 and its geographical score at least 1.0;
\* 1.5 with 1.0 is accepted, 1.49 is rejected and 0.99 is rejected.
C10_InclusiveThresholds ==
    (phase = "gate" /\ pc = "done") =>
        LET b == loc.score_breakdown
        IN  /\ result[1] <=> (b.capability_score >= 150
                              /\ b.geographical_presence >= 100)
            /\ (b.capability_score = 150 /\ b.geographical_presence = 100)
                   => result[1]
            /\ b.capability_score = 149 => ~result[1]
            /\ b.geographical_presence = 99 => ~result[1]

\* the breakdown with capability 1.5 and geography 1.0 was accepted
C10_Witness ==
    /\ phase = "gate" /\ pc = "done"
    /\ loc.score_breakdown.capability_score = 150
    /\ loc.score_breakdown.geographical_presence = 100
    /\ result = Some(TRUE)

\* C5 as claimed: a phase that ends with no accepted record has written an
\* empty output table.
C5_EmptyOutputWritten ==
    (pc = "done" /\ accepted = <<>>) => files.output_file = Written(<<>>)

\* C5 as amended: a phase whose loop ends with no accepted record ends
\* normally, without an output table and without a result; the output table
\* is written exactly when a record was accepted.
C5_OutputIffAccepted ==
    /\ [][(pc = "loop" /\ i >= df_len /\ accepted = <<>>) =>
             (pc' = "done" /\ result' = None
                  /\ files'.output_file = NoFile)]_vars
    /\ [](pc = "done" =>
             /\ accepted = <<>> <=> files.output_file = NoFile
             /\ accepted = <<>> <=> result = None
             /\ accepted # <<>> => Len(files.output_file[1]) = Len(accepted))

\* a phase has ended a run with rejections and no accepted record
C5_Witness ==
    /\ pc = "done" /\ accepted = <<>> /\ result = None
    /\ files.output_file = NoFile
    /\ \/ phase = "P1" /\ disqualified_companies = 2
       \/ phase = "P1b" /\ Len(rejected) = 2
       \/ phase = "P2" /\ Len(rejected) = MaxRecords
       \/ phase = "P3" /\ Len(rejected) = MaxRecords

------------------------------------------------------------------------------
(* Properties of parse_numeric_value.                                       *)

\* the words of a text: its longest runs of letters
Words(text) ==
    LET letter(k) == Char(text, k) \in Chars(LowerLetters) \cup Chars(UpperLetters)
    IN  {SubSeq(text, run[1], run[2]) :
            run \in {r \in (1..Len(text)) \X (1..Len(text)) :
                        /\ r[1] <= r[2]
                        /\ \A k \in r[1]..r[2] : letter(k)
                        /\ r[1] = 1 \/ ~letter(r[1] - 1)
                        /\ r[2] = Len(text) \/ ~letter(r[2] + 1)}}

MagnitudeWords == {"million", "m", "mn", "billion", "b"}

\* a parse_numeric_value run on a string has returned
ParsedText == phase = "fn" /\ pc = "done" /\ loc.fn = "parse_numeric_value"
                  /\ isinstance_str(loc.value)

\* C11 as claimed: on a text none of whose words is a magnitude word and
\* that is no placeholder, parse_numeric_value returns the number spelt by
\* the digits, dots and minus signs of the text; "250 employees" gives 250.
C11_UnitWordIgnored ==
    (/\ ParsedText
     /\ Words(Lower(loc.value.v)) \cap MagnitudeWords = {}
     /\ Lower(Strip(loc.value.v)) \notin numeric_placeholders) =>
        /\ result = python_float(Keep(loc.value.v,
                                      Chars(Digits) \cup {".", "-"}))
        /\ loc.value.v = "250 employees" => result = Some(Float(250, 0))

\* what each text made of a number and a magnitude word stands for
MagnitudeExpected ==
    [text \in {"$1.5M", "2 billion", "10 million", "3mn", "1,200.5 m", "5b"}
        |-> CASE text = "$1.5M" -> Float(1500000, 0)
              [] text = "2 billion" -> Float(2000000000, 0)
              [] text = "10 million" -> Float(10000000, 0)
              [] text = "3mn" -> Float(3000000, 0)
              [] text = "1,200.5 m" -> Float(1200500000, 0)
              [] OTHER -> Float(5, 9)]

\* C12: on a text made of a number and one magnitude word, the number
\* (commas dropped) is multiplied by 1,000,000 for million, m and mn and by
\* 1,000,000,000 for billion and b: "$1.5M" gives 1,500,000 and "2 billion"
\* gives 2,000,000,000.
C12_MagnitudeScaling ==
    (ParsedText /\ loc.value.v \in DOMAIN MagnitudeExpected) =>
        result = Some(MagnitudeExpected[loc.value.v])

\* "$1.5M" was parsed to 1,500,000
C12_Witness ==
    /\ ParsedText
    /\ loc.value.v = "$1.5M"
    /\ result = Some(Float(15, 5))

\* C13: whatever its input (absent, not a string, a placeholder, a text
\* without digits, a malformed number), parse_numeric_value returns None or
\* one number and no exception leaves it; placeholders, absent and
\* non-string values and texts without a digit give None.
C13_Total ==
    (phase = "fn" /\ pc = "done" /\ loc.fn = "parse_numeric_value") =>
        /\ Len(result) <= 1
        /\ result # None => result[1] \in [m : Int, e : Int]
        /\ (\/ ~isinstance_str(loc.value)
            \/ Lower(Strip(loc.value.v)) \in numeric_placeholders
            \/ Chars(loc.value.v) \cap Chars(Digits) = {})
               => result = None

\* the malformed number "1.2.3M" was parsed to None
C13_Witness ==
    /\ ParsedText
    /\ loc.value.v = "1.2.3M"
    /\ result = None

C20_DistinctCountries ==
    (/\ phase = "fn" /\ pc = "done"
     /\ loc.fn = "assess_geographical_presence_flexible")
    => LET scored(c, distinct) ==
               result.score =
                   (IF c # None /\ c[1] >= 5 THEN 5
                    ELSE IF c # None /\ c[1] >= 3 THEN 4
                    ELSE IF c # None /\ c[1] >= 2 THEN 3
                    ELSE IF distinct >= 3 THEN 4
                    ELSE IF distinct >= 2 THEN 3
                    ELSE 2)
       IN  scored(find_location_count(loc.row, <<"num_locations">>),
                  Cardinality(Range(find_countries(loc.row,
                                                   <<"main_country">>))))

\* C18: with the sub-scores size, stability, financial and geo, each in 1..5,
\* calculate_capability_score_flexible returns the capability score
\* (3*size + 3*stability + 4*financial) / 10 and the total score
\* (7*(3*size + 3*stability + 4*financial) + 30*geo) / 100, and both lie
\* between 1.0 and 5.0 (scores are kept in hundredths).
C18_CompositeScores ==
    (/\ phase = "fn" /\ pc = "done"
     /\ loc.fn = "calculate_capability_score_flexible")
    => LET b == result.score_breakdown
           composed(size, stability, financial, geo) ==
               /\ {size, stability, financial, geo} \subseteq 1..5
               /\ b.capability_score = 10 * (3 * size + 3 * stability
                                                 + 4 * financial)
               /\ result.total_score = 7 * (3 * size + 3 * stability
                                                + 4 * financial) + 30 * geo
               /\ b.capability_score \in 100..500
               /\ result.total_score \in 100..500
               /\ b.total_score \in 100..500
               /\ b.total_score - result.total_score \in -5..5
       IN  composed(b.company_size, b.company_stability,
                    b.financial_strength, b.geographical_presence \div 100)

\* sub-scores 1, 5, 3 and 4: the capability score is 3.0 and the total
\* score 3.3
C18_Witness ==
    /\ phase = "fn" /\ pc = "done"
    /\ loc.fn = "calculate_capability_score_flexible"
    /\ loc.row["employee_count"] = Num(5)
    /\ result.score_breakdown.company_size = 1
    /\ result.score_breakdown.company_stability = 5
    /\ result.score_breakdown.financial_strength = 3
    /\ result.score_breakdown.geographical_presence = 400
    /\ result.score_breakdown.capability_score = 300
    /\ result.total_score = 330

\* the exception with which the request of check_website_accessibility
\* fails: the one requests.get raises after requests.head answered or raised
\* a RequestException, or the one requests.head raises otherwise
FailingRequest(net) ==
    IF net.head.kind = "response"
    THEN IF net.head.code \in {200, 301, 302, 307, 308} THEN "none"
         ELSE IF net.get.kind = "response" THEN "none" ELSE net.get.kind
    ELSE IF "RequestException" \in ExceptionClasses(net.head.kind)
    THEN IF net.get.kind = "response" THEN "none" ELSE net.get.kind
    ELSE net.head.kind

\* C22: when the request fails with an SSL error and the request repeated
\* with verify=False returns a status in [200, 400), the checker reports
\* reachable with that status and the message "SSL verification bypassed".
C22_TlsFallback ==
    (/\ phase = "fn" /\ pc = "done"
     /\ loc.fn = "check_website_accessibility"
     /\ FailingRequest(loc.net) = "SSLError"
     /\ loc.net.get_unverified.kind = "response"
     /\ loc.net.get_unverified.code \in 200..399)
    => /\ result.is_accessible
       /\ result.status_code = Some(loc.net.get_unverified.code)
       /\ result.error_msg = Some("SSL verification bypassed")

C25_DefaultsWithoutRoleColumns ==
    (/\ phase = "P3" /\ df_len > 0
     /\ \A role \in DOMAIN detect_capability_columns(df_columns) :
            detect_capability_columns(df_columns)[role] = <<>>)
    => /\ pc # "raised"
       /\ rejected = <<>>
       /\ Len(accepted) = i
       /\ i > 0 =>
              /\ loc.score_breakdown.company_size = 2
              /\ loc.score_breakdown.company_stability = 3
              /\ loc.score_breakdown.financial_strength = 2
              /\ loc.score_breakdown.geographical_presence = 200
              /\ loc.score_breakdown.capability_score = 230
              /\ loc.is_suitable
              /\ accepted[i]["capability_score"] = Dec(230)
              /\ \A c \in DOMAIN df[i] : accepted[i][c] = df[i][c]
       /\ pc = "done" => result = Some(accepted) /\ Len(accepted) = df_len

\* a finished run on a table of two records without capability columns,
\* both accepted with the capability score 2.3
C25_Witness ==
    /\ phase = "P3" /\ pc = "done"
    /\ df_columns = P3BareColumns /\ df_len = 2 /\ df[1] # df[2]
    /\ Len(accepted) = 2 /\ rejected = <<>>
    /\ accepted[1]["capability_score"] = Dec(230)
    /\ accepted[2]["capability_score"] = Dec(230)
    /\ files.output_file = Written(accepted)

\* C26: in every phase the accepted and the rejected list only grow, by one
\* record at their end and one step at a time, so that a record once appended
\* is never removed, moved or changed; the loop moves forward through the
\* table and the record appended to the accepted list is a copy of a row of
\* the block or of the record being processed; the output table holds the
\* accepted records in the order of the list.
C26_AppendOnly ==
    /\ [][/\ Len(accepted') \in {Len(accepted), Len(accepted) + 1}
          /\ SubSeq(accepted', 1, Len(accepted)) = accepted
          /\ Len(rejected') \in {Len(rejected), Len(rejected) + 1}
          /\ SubSeq(rejected', 1, Len(rejected)) = rejected
          /\ i' >= i
          /\ Len(accepted') = Len(accepted) + 1 =>
                 \E source \in (IF phase \in {"P2", "P3"} THEN {df[i + 1]}
                                 ELSE Range(company_block')) :
                     /\ i' > i \/ phase \in {"P1", "P1b"}
                     /\ \A c \in DOMAIN source :
                            accepted'[Len(accepted')][c] = source[c]]_vars
    /\ []((pc = "done" /\ files.output_file # NoFile) =>
            /\ Len(files.output_file[1]) = Len(accepted)
            /\ \A k \in 1..Len(accepted) :
                   \A c \in DOMAIN accepted[k]
                              \cap DOMAIN files.output_file[1][k] :
                       files.output_file[1][k][c] = accepted[k][c])

\* a finished Phase 2 run on three records, the second rejected: the output
\* table holds the first and the third, in this order
C26_Witness ==
    /\ phase = "P2" /\ pc = "done" /\ df_len = 3
    /\ Len(accepted) = 2 /\ Len(rejected) = 1
    /\ df[1] # df[3]
    /\ \A c \in DOMAIN df[1] : accepted[1][c] = df[1][c]
    /\ \A c \in DOMAIN df[3] : accepted[2][c] = df[3][c]
    /\ files.output_file # NoFile
    /\ files.output_file[1] = accepted

\* C27: in Phase 2 and in Phase 3 every step of the loop places the record
\* it processes in exactly one of the accepted and the rejected list, so the
\* two lists together hold as many records as were processed and, after the
\* loop, as the table has.
C27_GatePartition ==
    /\ [][(phase \in {"P2", "P3"} /\ i' # i) =>
            /\ i' = i + 1 /\ i < df_len
            /\ \/ /\ Len(accepted') = Len(accepted) + 1
                  /\ rejected' = rejected
                  /\ \A c \in DOMAIN df[i + 1] :
                         accepted'[Len(accepted')][c] = df[i + 1][c]
               \/ /\ Len(rejected') = Len(rejected) + 1
                  /\ accepted' = accepted
                  /\ rejected'[Len(rejected')].company_name
                         = Str(loc'.company_name)]_vars
    /\ [](phase \in {"P2", "P3"} =>
            /\ Len(accepted) + Len(rejected) = i
            /\ pc = "done" => i = df_len)

\* a finished Phase 3 run on three records, two accepted and one rejected
C27_Witness ==
    /\ phase = "P3" /\ pc = "done" /\ df_len = 3
    /\ Len(accepted) = 2 /\ Len(rejected) = 1
    /\ rejected[1].company_name # accepted[1]["company_name"]
    /\ rejected[1].company_name # accepted[2]["company_name"]

\* C28: assess_geographical_presence_flexible returns a score in 2..5, so
\* the geography threshold 1.0 of the Phase 3 gate is always met: the gate
\* fails exactly when 3*size + 3*stability + 4*financial < 15, a record is
\* rejected by Phase 3 exactly then, and the reasons of every rejected
\* record are the low-capability reason alone.
C28_GeographyNeverRejects ==
    /\ (/\ phase = "fn" /\ pc = "done"
        /\ loc.fn = "assess_geographical_presence_flexible")
       => result.score \in 2..5
    /\ (/\ phase = "fn" /\ pc = "done"
        /\ loc.fn = "calculate_capability_score_flexible")
       => LET b == result.score_breakdown
          IN  /\ b.geographical_presence \in {200, 300, 400, 500}
              /\ is_suitable_supplier_flexible(b, min_capability_score,
                                               min_geo_score)
                     <=> 3 * b.company_size + 3 * b.company_stability
                             + 4 * b.financial_strength >= 15
    /\ (phase = "P3" /\ i > 0)
       => LET b == loc.score_breakdown
              low == 3 * b.company_size + 3 * b.company_stability
                         + 4 * b.financial_strength < 15
          IN  /\ b.geographical_presence \in {200, 300, 400, 500}
              /\ loc.is_suitable <=> ~low
              /\ low => /\ rejected # <<>>
                         /\ rejected[Len(rejected)].company_name
                                = Str(loc.company_name)
              /\ Len(rejected)
                     = Cardinality({k \in 1..i :
                           P3RowFacts[df[k]].scored.score_breakdown
                               .capability_score < 150})
              /\ \A k \in 1..Len(rejected) :
                     /\ rejected[k].rejection_reasons.v
                            = "Low capability ("
                              \o format_1f(rejected[k].capability_score.n)
                              \o "/5.0)"
                     /\ ~Contains(rejected[k].rejection_reasons.v,
                                  "Poor geography")

\* a Phase 3 run has rejected a record with geography score 2, giving the
\* low-capability reason only
C28_Witness ==
    /\ phase = "P3" /\ i > 0
    /\ ~loc.is_suitable
    /\ loc.score_breakdown.geographical_presence = 200
    /\ loc.score_breakdown.capability_score = 100
    /\ rejected # <<>>
    /\ rejected[Len(rejected)].rejection_reasons
           = Str("Low capability (1.0/5.0)")

==============================================================================
